---- MODULE Spec2Model ----
(***************************************************************************)
(* A model of the fall / near-fall decision core of whxue02/axxess2026:    *)
(*   fall_detection/fall_classifier.py     FallClassifier                  *)
(*   fall_detection/near_fall_detector.py  NearFallDetector                *)
(*   fall_detection/event_logger.py        EventLogger                     *)
(* Each object is one record variable whose fields carry the names of the  *)
(* Python attributes (without the leading underscore).  Variables whose    *)
(* name ends in In / Out / Obs are history variables: they record what the *)
(* caller passed and what the call returned, and never influence the       *)
(* object.                                                                 *)
(***************************************************************************)
EXTENDS Integers, Sequences, FiniteSets, TLC

VARIABLES clf, clfIn, clfOut,
          rec, recObs,
          nfd, nfdObs,
          eng, engObs,
          pipeObs,
          app, workers, appObs,
          resp

classifierVars == <<clf, clfIn, clfOut>>
recorderVars == <<rec, recObs>>
detectorVars == <<nfd, nfdObs>>
engineerVars == <<eng, engObs>>
historyVars == <<clfIn, clfOut, nfdObs, engObs>>
appVars == <<app, workers, appObs>>
responseVars == <<resp>>

vars == <<classifierVars, recorderVars, detectorVars, engineerVars, pipeObs,
          appVars, responseVars>>

None == "None"

Max(a, b) == IF a >= b THEN a ELSE b
Min(a, b) == IF a <= b THEN a ELSE b
Abs(a) == IF a >= 0 THEN a ELSE 0 - a

(***************************************************************************)
(* FallClassifier (fall_detection/fall_classifier.py)                      *)
(*                                                                         *)
(* The scorer is opaque (pipeline.predict_proba): a feature vector is      *)
(* modelled by the probability the scorer gives it, in percent.  The       *)
(* argument of predict is a record [none, proba]; none = TRUE is the       *)
(* Python None (window not full yet).                                      *)
(***************************************************************************)
MaxCalls == 6
MaxConfirmationWindows == 3

ProbaLevels == {20, 50, 80}
Thresholds == {50, 80}
FeatureInputs == {[none |-> TRUE, proba |-> 0]}
                 \cup {[none |-> FALSE, proba |-> p] : p \in ProbaLevels}

\* __init__: threshold comes from the pickle, confirmation_windows from the caller.
ClassifierNew(threshold, confirmation_windows) ==
    [threshold             |-> threshold,
     confirmation_windows  |-> confirmation_windows,
     consecutive_positives |-> 0,
     fall_declared         |-> FALSE]

\* predict with the latch left set on a sub-threshold score.
PredictNoRearm(c, x) ==
    IF x.none
    THEN [obj |-> [c EXCEPT !.consecutive_positives = 0], ret |-> "no_fall"]
    ELSE LET n == IF x.proba >= c.threshold THEN c.consecutive_positives + 1 ELSE 0
         IN  IF n >= c.confirmation_windows /\ ~c.fall_declared
             THEN [obj |-> [c EXCEPT !.consecutive_positives = n,
                                     !.fall_declared = TRUE],
                   ret |-> "fall"]
             ELSE [obj |-> [c EXCEPT !.consecutive_positives = n],
                   ret |-> IF n > 0 THEN "confirming" ELSE "no_fall"]

\* predict(flat_features): the new object and the returned status.
Predict(c, x) ==
    IF x.none
    THEN [obj |-> [c EXCEPT !.consecutive_positives = 0], ret |-> "no_fall"]
    ELSE LET positive == x.proba >= c.threshold
             n == IF positive THEN c.consecutive_positives + 1 ELSE 0
             d == IF positive THEN c.fall_declared ELSE FALSE
         IN  IF n >= c.confirmation_windows /\ ~d
             THEN [obj |-> [c EXCEPT !.consecutive_positives = n,
                                     !.fall_declared = TRUE],
                   ret |-> "fall"]
             ELSE [obj |-> [c EXCEPT !.consecutive_positives = n,
                                     !.fall_declared = d],
                   ret |-> IF n > 0 THEN "confirming" ELSE "no_fall"]

\* reset()
ClassifierReset(c) ==
    [c EXCEPT !.consecutive_positives = 0, !.fall_declared = FALSE]

ClassifierInit ==
    /\ clf \in {ClassifierNew(t, w) : t \in Thresholds,
                                      w \in 1..MaxConfirmationWindows}
    /\ clfIn = <<>>
    /\ clfOut = <<>>

ClassifierIdle ==
    /\ clf = ClassifierNew(50, 2)
    /\ clfIn = <<>>
    /\ clfOut = <<>>

ClassifierPredict ==
    /\ Len(clfIn) < MaxCalls
    /\ \E x \in FeatureInputs :
         /\ clf' = Predict(clf, x).obj
         /\ clfIn' = Append(clfIn, x)
         /\ clfOut' = Append(clfOut, Predict(clf, x).ret)

\* reset() starts a new stream: the histories start again.
ClassifierResetCall ==
    /\ clfIn # <<>>
    /\ clf' = ClassifierReset(clf)
    /\ clfIn' = <<>>
    /\ clfOut' = <<>>

(***************************************************************************)
(* EventLogger (fall_detection/event_logger.py), the clip recorder.        *)
(*                                                                         *)
(* A frame is modelled by its arrival number (frame.copy() keeps the       *)
(* content), so every frame passed to add_frame is distinguishable.        *)
(* seconds_after is the module constant SECONDS_AFTER, 0 in the            *)
(* repository; the model also covers other configured values.              *)
(***************************************************************************)
SECONDS_BEFORE == 5
MaxSecondsAfter == 2
MaxFps == 2
MaxAdds == 8

\* append of a list that never evicts.
ListAppend(q, x, maxlen) == Append(q, x)

\* deque(maxlen = n).append(x)
DequeAppend(q, x, maxlen) ==
    IF maxlen = 0 THEN <<>>
    ELSE IF Len(q) < maxlen THEN Append(q, x)
    ELSE Append(Tail(q), x)

\* EventLogger.__init__
RecorderNew(fps, seconds_after) ==
    [fps              |-> fps,
     frames_before    |-> SECONDS_BEFORE * fps,
     frames_after     |-> seconds_after * fps,
     frame_buffer     |-> <<>>,
     recording        |-> FALSE,
     post_fall_frames |-> <<>>,
     frames_remaining |-> 0]

\* _save_clip: the frames handed to the encoder and the returned path.
SaveClip(r) ==
    LET all_frames == r.frame_buffer \o r.post_fall_frames
    IN  [frames |-> all_frames,
         path   |-> IF all_frames = <<>> THEN None ELSE "filepath"]

\* add_frame that saves only once the counter is below zero.
AddFrameOneLate(r, frame) ==
    IF ~r.recording
    THEN [obj |-> [r EXCEPT !.frame_buffer =
                               DequeAppend(r.frame_buffer, frame, r.frames_before)],
          ret |-> None, clip |-> <<>>]
    ELSE LET r1 == [r EXCEPT !.post_fall_frames = Append(r.post_fall_frames, frame),
                             !.frames_remaining = r.frames_remaining - 1]
         IN  IF r1.frames_remaining < 0
             THEN [obj |-> [r1 EXCEPT !.recording = FALSE,
                                      !.post_fall_frames = <<>>],
                   ret |-> SaveClip(r1).path, clip |-> SaveClip(r1).frames]
             ELSE [obj |-> r1, ret |-> None, clip |-> <<>>]

\* add_frame(frame): the new object, the returned path, the encoded frames.
AddFrame(r, frame) ==
    IF ~r.recording
    THEN [obj |-> [r EXCEPT !.frame_buffer =
                               DequeAppend(r.frame_buffer, frame, r.frames_before)],
          ret |-> None, clip |-> <<>>]
    ELSE LET r1 == [r EXCEPT !.post_fall_frames = Append(r.post_fall_frames, frame),
                             !.frames_remaining = r.frames_remaining - 1]
         IN  IF r1.frames_remaining <= 0
             THEN [obj |-> [r1 EXCEPT !.recording = FALSE,
                                      !.post_fall_frames = <<>>],
                   ret |-> SaveClip(r1).path, clip |-> SaveClip(r1).frames]
             ELSE [obj |-> r1, ret |-> None, clip |-> <<>>]

\* What cv2.VideoWriter may do with the frames: write the file, fail without
\* a word (an unopened writer ignores write), or raise cv2.error.
EncoderOutcomes == {"ok", "silent_failure", "raises"}

\* add_frame(frame) when the encoder called by _save_clip does `encoder`:
\* _save_clip has no try / except, so an exception leaves add_frame at line
\* 51, after the append and the decrement and before recording is cleared.
AddFrameEncoder(r, frame, encoder) ==
    LET res == CHOOSE x \in {AddFrame(r, frame)} : TRUE
    IN  IF res.clip # <<>> /\ encoder = "raises"
        THEN [obj |-> [r EXCEPT !.post_fall_frames =
                                   Append(r.post_fall_frames, frame),
                                !.frames_remaining = r.frames_remaining - 1],
              ret |-> "raised", clip |-> res.clip]
        ELSE res

\* on_fall_detected without the test for an active session.
OnFallDetectedRestart(r) ==
    [r EXCEPT !.recording = TRUE,
              !.frames_remaining = r.frames_after,
              !.post_fall_frames = <<>>]

\* on_fall_detected()
OnFallDetected(r) ==
    IF r.recording THEN r
    ELSE [r EXCEPT !.recording = TRUE,
                   !.frames_remaining = r.frames_after,
                   !.post_fall_frames = <<>>]

\* reset()
RecorderReset(r) ==
    [r EXCEPT !.frame_buffer = <<>>,
              !.recording = FALSE,
              !.post_fall_frames = <<>>,
              !.frames_remaining = 0]

(* recObs: op        the last call made,
           ret       what the last add_frame returned,
           clock     frames passed to add_frame since construction,
           seen      the frames passed to add_frame since construction or reset,
           session   add_frame calls made in the current or last session,
           inSession whether the last add_frame call was made while recording,
           active    sessions started and not yet ended by a clip or a reset,
           dup       whether the last on_fall_detected found a session active,
           postLen   the length the post-trigger list had inside the last
                     add_frame, right after its append,
           clip      the frames the last add_frame handed to the encoder,
           atTrigger the rolling buffer as the last accepted trigger found it,
           preSeen   the frames passed to add_frame (since construction or
                     reset) before the last accepted trigger,
           sessFrames the frames passed to add_frame since the last accepted
                     trigger, while recording,
           encoder   what the encoder did in the last add_frame,
           raised    whether the last add_frame raised. *)
RecorderObsNew ==
    [op |-> "init", ret |-> None, clock |-> 0, seen |-> <<>>,
     session |-> 0, inSession |-> FALSE, active |-> 0, dup |-> FALSE,
     postLen |-> 0, clip |-> <<>>, atTrigger |-> <<>>, preSeen |-> <<>>,
     sessFrames |-> <<>>, encoder |-> "unused", raised |-> FALSE]

RecorderInit ==
    /\ rec \in {RecorderNew(f, s) : f \in 1..MaxFps, s \in 0..MaxSecondsAfter}
    /\ recObs = RecorderObsNew

RecorderIdle ==
    /\ rec = RecorderNew(1, 0)
    /\ recObs = RecorderObsNew

\* What the caller of add_frame(frame) observes; res is its outcome and
\* encoder what the encoder did, "unused" when no clip was saved.
RecorderObserveAddFrame(o, r, frame, res, encoder) ==
    [o EXCEPT
       !.op = "add_frame",
       !.ret = res.ret,
       !.clock = frame,
       !.seen = Append(o.seen, frame),
       !.inSession = r.recording,
       !.postLen = IF r.recording THEN Len(r.post_fall_frames) + 1 ELSE 0,
       !.session = IF r.recording THEN o.session + 1 ELSE o.session,
       !.active = IF r.recording /\ ~res.obj.recording
                  THEN o.active - 1 ELSE o.active,
       !.clip = res.clip,
       !.sessFrames = IF r.recording THEN Append(o.sessFrames, frame)
                      ELSE o.sessFrames,
       !.encoder = encoder,
       !.raised = res.ret = "raised"]

RecorderAddFrame ==
    /\ recObs.clock < MaxAdds
    /\ LET frame == recObs.clock + 1
           res == AddFrame(rec, frame)
       IN  /\ rec' = res.obj
           /\ recObs' = RecorderObserveAddFrame(recObs, rec, frame, res,
                            IF res.clip = <<>> THEN "unused" ELSE "ok")

\* add_frame(frame) with an encoder that may fail.
RecorderAddFrameEncoder ==
    /\ recObs.clock < MaxAdds
    /\ \E encoder \in EncoderOutcomes :
         LET frame == recObs.clock + 1
             res == AddFrameEncoder(rec, frame, encoder)
         IN  /\ rec' = res.obj
             /\ recObs' = RecorderObserveAddFrame(recObs, rec, frame, res,
                              IF res.clip = <<>> THEN "unused" ELSE encoder)

RecorderOnFallDetected ==
    /\ rec' = OnFallDetected(rec)
    /\ recObs' = [recObs EXCEPT
           !.op = "on_fall_detected",
           !.dup = rec.recording,
           !.session = IF rec.recording THEN recObs.session ELSE 0,
           !.active = IF rec' # rec THEN recObs.active + 1 ELSE recObs.active,
           !.atTrigger = IF rec.recording THEN recObs.atTrigger
                         ELSE rec.frame_buffer,
           !.preSeen = IF rec.recording THEN recObs.preSeen ELSE recObs.seen,
           !.sessFrames = IF rec.recording THEN recObs.sessFrames ELSE <<>>]

RecorderResetCall ==
    /\ recObs.op # "reset"
    /\ rec' = RecorderReset(rec)
    /\ recObs' = [recObs EXCEPT !.op = "reset", !.seen = <<>>,
                                !.session = 0, !.inSession = FALSE,
                                !.active = 0]

(***************************************************************************)
(* NearFallDetector (fall_detection/near_fall_detector.py)                 *)
(*                                                                         *)
(* Arithmetic.  Landmark y coordinates are integers in units of 1e-6 of    *)
(* the image height, so the code's 1e-6 is 1.  hip_norm, velocities and    *)
(* the thresholds are integers in units of 1/1000.  The poses fed to the   *)
(* detector are chosen so that the division in hip_norm is exact for every *)
(* frame the sanity filter accepts.  The standing baseline, the mean of    *)
(* the BASELINE_FRAMES samples of the full buffer, is kept multiplied by   *)
(* BASELINE_FRAMES (that is, as the sum of the buffer), and comparisons    *)
(* with it are multiplied through, so no rounding occurs anywhere.         *)
(* Optional attributes are sequences: <<>> is None, <<v>> is the value v.  *)
(***************************************************************************)
VELOCITY_TRIGGER == 25
VELOCITY_CALM == 12
ACTIVITY_RATIO_SIT_PERCENT == 55
RECOVERY_FRAMES == 30
MIN_DROP_TO_QUALIFY == 40
RECOVERY_TOLERANCE == 50
BASELINE_FRAMES == 45
MAX_ACTIVITY_RATIO == 5

MaxSteps == 6

\* The landmark rows update reads: shoulders 11, 12; hips 23, 24; knees 25, 26.
LandmarkRows == {11, 12, 23, 24, 25, 26}

\* _avg_y
AvgY(lm, a, b) == (lm.y[a] + lm.y[b]) \div 2

\* A detected pose: shoulders at 0.3 of the image height, knees one body
\* height (0.1 * scale, less the 1e-6 the code adds) below them, or above
\* them when `up`, hips where hip_norm is norm/1000; left and right
\* landmarks differ by a slight lean.
Pose(scale, norm, up) ==
    LET shoulder == 300000
        knee == IF up THEN shoulder - (100000 * scale - 1)
                      ELSE shoulder + (100000 * scale - 1)
        hip == shoulder + norm * 100 * scale
    IN  [absent |-> FALSE,
         y |-> [i \in LandmarkRows |->
                  CASE i = 11 -> shoulder - 100
                    [] i = 12 -> shoulder + 100
                    [] i = 23 -> hip - 100
                    [] i = 24 -> hip + 100
                    [] i = 25 -> knee - 100
                    [] i = 26 -> knee + 100]]

\* A pose whose knee landmarks are off: activity_ratio is exactly 10.
BrokenPose ==
    [absent |-> FALSE,
     y |-> [i \in LandmarkRows |->
              CASE i \in {11, 12} -> 300000
                [] i \in {23, 24} -> 309090
                [] i \in {25, 26} -> 399999]]

\* landmarks = None
AbsentPose == [absent |-> TRUE, y |-> [i \in LandmarkRows |-> 0]]

\* The sum of q[lo..hi], by halves.
RECURSIVE SumRange(_, _, _)
SumRange(q, lo, hi) ==
    IF lo > hi THEN 0
    ELSE IF lo = hi THEN q[lo]
    ELSE SumRange(q, lo, (lo + hi) \div 2)
           + SumRange(q, (lo + hi) \div 2 + 1, hi)

SeqSum(q) == SumRange(q, 1, Len(q))

SeqMax(q) ==
    CHOOSE m \in {q[i] : i \in 1..Len(q)} : \A i \in 1..Len(q) : q[i] <= m

\* NearFallDetector.__init__, and the state reset() leaves.
DetectorNew ==
    [baseline_buf             |-> <<>>,
     standing_norm            |-> <<>>,
     prev_norm                |-> <<>>,
     velocity_buf             |-> <<>>,
     state                    |-> "IDLE",
     recovery_frames_left     |-> 0,
     lowest_norm_in_recovery  |-> <<>>,
     triggered_rules          |-> <<>>]

\* The quantities update derives from one frame of landmarks.
Derived(lm) ==
    LET hip_y == AvgY(lm, 23, 24)
        knee_y == AvgY(lm, 25, 26)
        shoulder_y == AvgY(lm, 11, 12)
        body_height == Abs(knee_y - shoulder_y) + 1
    IN  [hip_norm     |-> ((hip_y - shoulder_y) * 1000) \div body_height,
         exact        |-> ((hip_y - shoulder_y) * 1000) % body_height = 0,
         leg_height   |-> Abs(knee_y - hip_y) + 1,
         torso_height |-> Abs(hip_y - shoulder_y) + 1]

\* activity_ratio < ACTIVITY_RATIO_SIT
RatioBelowSit(q) ==
    100 * q.leg_height < ACTIVITY_RATIO_SIT_PERCENT * q.torso_height

\* The sanity check: activity_ratio > MAX_ACTIVITY_RATIO
\* or not (-0.2 <= hip_norm <= 2.5).
Rejected(q) ==
    \/ q.leg_height > MAX_ACTIVITY_RATIO * q.torso_height
    \/ ~(0 - 200 <= q.hip_norm /\ q.hip_norm <= 2500)

\* hip_norm > standing_norm + margin, standing_norm being kept as a sum.
AboveBaseline(hip_norm, standing, margin) ==
    BASELINE_FRAMES * hip_norm > standing[1] + BASELINE_FRAMES * margin

\* The IDLE branch without is_below_baseline.
TriggersWithoutBaseline(d, hip_norm, peak_velocity) ==
    peak_velocity >= VELOCITY_TRIGGER

\* The IDLE branch: velocity_spike and is_below_baseline.
Triggers(d, hip_norm, peak_velocity) ==
    /\ peak_velocity >= VELOCITY_TRIGGER
    /\ (d.standing_norm # <<>> => AboveBaseline(hip_norm, d.standing_norm, 10))

\* is_sitting that never holds.
IsSittingDisabled(q, peak_velocity) == FALSE

\* is_sitting decided by the activity ratio alone.
IsSittingRatioOnly(q, peak_velocity) == RatioBelowSit(q)

\* The TRIGGERED branch: is_sitting.
IsSitting(q, peak_velocity) ==
    RatioBelowSit(q) /\ Abs(peak_velocity) < VELOCITY_TRIGGER

\* The RECOVERY branch: dropped_enough, with the marker already updated.
DroppedEnough(d, lowest) ==
    /\ d.standing_norm # <<>>
    /\ AboveBaseline(lowest, d.standing_norm, MIN_DROP_TO_QUALIFY)

\* recovered without the return to the baseline.
RecoveredWithoutReturn(d, lowest, hip_norm) == DroppedEnough(d, lowest)

\* The RECOVERY branch: recovered.
Recovered(d, lowest, hip_norm) ==
    /\ DroppedEnough(d, lowest)
    /\ ~AboveBaseline(hip_norm, d.standing_norm, RECOVERY_TOLERANCE)

\* Kinematics that takes the mean of the buffer as the baseline from the
\* first sample on.
KinematicsEarlyBaseline(d, hip_norm) ==
    LET velocity == IF d.prev_norm = <<>> THEN 0 ELSE hip_norm - d.prev_norm[1]
        vbuf == DequeAppend(d.velocity_buf, velocity, 3)
        calm == Abs(SeqMax(vbuf)) < VELOCITY_CALM
        bbuf == IF calm
                THEN DequeAppend(d.baseline_buf, hip_norm, BASELINE_FRAMES)
                ELSE d.baseline_buf
    IN  [d EXCEPT !.triggered_rules = <<>>,
                  !.prev_norm = <<hip_norm>>,
                  !.velocity_buf = vbuf,
                  !.baseline_buf = bbuf,
                  !.standing_norm =
                      IF calm
                      THEN <<(SeqSum(bbuf) * BASELINE_FRAMES) \div Len(bbuf)>>
                      ELSE d.standing_norm]

\* Kinematics that maintains the baseline in IDLE only.
KinematicsIdleOnly(d, hip_norm) ==
    LET velocity == IF d.prev_norm = <<>> THEN 0 ELSE hip_norm - d.prev_norm[1]
        vbuf == DequeAppend(d.velocity_buf, velocity, 3)
        calm == Abs(SeqMax(vbuf)) < VELOCITY_CALM /\ d.state = "IDLE"
        bbuf == IF calm
                THEN DequeAppend(d.baseline_buf, hip_norm, BASELINE_FRAMES)
                ELSE d.baseline_buf
    IN  [d EXCEPT !.triggered_rules = <<>>,
                  !.prev_norm = <<hip_norm>>,
                  !.velocity_buf = vbuf,
                  !.baseline_buf = bbuf,
                  !.standing_norm =
                      IF calm /\ Len(bbuf) >= BASELINE_FRAMES
                      THEN <<SeqSum(bbuf)>> ELSE d.standing_norm]

\* Velocity, velocity ring buffer and baseline maintenance of an accepted
\* frame (lines 108-120); triggered_rules has been cleared.
Kinematics(d, hip_norm) ==
    LET velocity == IF d.prev_norm = <<>> THEN 0 ELSE hip_norm - d.prev_norm[1]
        vbuf == DequeAppend(d.velocity_buf, velocity, 3)
        calm == Abs(SeqMax(vbuf)) < VELOCITY_CALM
        bbuf == IF calm
                THEN DequeAppend(d.baseline_buf, hip_norm, BASELINE_FRAMES)
                ELSE d.baseline_buf
    IN  [d EXCEPT !.triggered_rules = <<>>,
                  !.prev_norm = <<hip_norm>>,
                  !.velocity_buf = vbuf,
                  !.baseline_buf = bbuf,
                  !.standing_norm =
                      IF calm /\ Len(bbuf) >= BASELINE_FRAMES
                      THEN <<SeqSum(bbuf)>> ELSE d.standing_norm]

\* The state machine with the marker left at the hip_norm of the frame that
\* entered RECOVERY.
StateMachineMarkerFixed(d, q) ==
    LET hip_norm == q.hip_norm
        peak_velocity == SeqMax(d.velocity_buf)
    IN  CASE d.state = "IDLE" ->
               IF Triggers(d, hip_norm, peak_velocity)
               THEN [obj |-> [d EXCEPT
                        !.triggered_rules = <<"velocity_spike_below_baseline">>,
                        !.state = "TRIGGERED"],
                     ret |-> "no_event"]
               ELSE [obj |-> d, ret |-> "no_event"]
          [] d.state = "TRIGGERED" ->
               IF IsSitting(q, peak_velocity)
               THEN [obj |-> [d EXCEPT
                        !.triggered_rules = <<"activity_ratio_sit">>,
                        !.state = "IDLE"],
                     ret |-> "sitting"]
               ELSE [obj |-> [d EXCEPT
                        !.triggered_rules = <<"entering_recovery">>,
                        !.state = "RECOVERY",
                        !.recovery_frames_left = RECOVERY_FRAMES,
                        !.lowest_norm_in_recovery = <<hip_norm>>],
                     ret |-> "no_event"]
          [] d.state = "RECOVERY" ->
               LET left == d.recovery_frames_left - 1
                   lowest == Max(hip_norm, d.lowest_norm_in_recovery[1])
               IN  IF Recovered(d, lowest, hip_norm)
                   THEN [obj |-> [d EXCEPT
                            !.triggered_rules = <<"recovery_detected">>,
                            !.state = "IDLE",
                            !.recovery_frames_left = left,
                            !.lowest_norm_in_recovery = <<>>],
                         ret |-> "near_fall"]
                   ELSE IF left <= 0
                   THEN [obj |-> [d EXCEPT
                            !.state = "IDLE",
                            !.recovery_frames_left = left,
                            !.lowest_norm_in_recovery = <<>>],
                         ret |-> "no_event"]
                   ELSE [obj |-> [d EXCEPT
                            !.recovery_frames_left = left],
                         ret |-> "no_event"]

\* The state machine of an accepted frame (lines 133-193), d being the
\* detector after Kinematics.
StateMachine(d, q) ==
    LET hip_norm == q.hip_norm
        peak_velocity == SeqMax(d.velocity_buf)
    IN  CASE d.state = "IDLE" ->
               IF Triggers(d, hip_norm, peak_velocity)
               THEN [obj |-> [d EXCEPT
                        !.triggered_rules = <<"velocity_spike_below_baseline">>,
                        !.state = "TRIGGERED"],
                     ret |-> "no_event"]
               ELSE [obj |-> d, ret |-> "no_event"]
          [] d.state = "TRIGGERED" ->
               IF IsSitting(q, peak_velocity)
               THEN [obj |-> [d EXCEPT
                        !.triggered_rules = <<"activity_ratio_sit">>,
                        !.state = "IDLE"],
                     ret |-> "sitting"]
               ELSE [obj |-> [d EXCEPT
                        !.triggered_rules = <<"entering_recovery">>,
                        !.state = "RECOVERY",
                        !.recovery_frames_left = RECOVERY_FRAMES,
                        !.lowest_norm_in_recovery = <<hip_norm>>],
                     ret |-> "no_event"]
          [] d.state = "RECOVERY" ->
               LET left == d.recovery_frames_left - 1
                   lowest == Max(hip_norm, d.lowest_norm_in_recovery[1])
               IN  IF Recovered(d, lowest, hip_norm)
                   THEN [obj |-> [d EXCEPT
                            !.triggered_rules = <<"recovery_detected">>,
                            !.state = "IDLE",
                            !.recovery_frames_left = left,
                            !.lowest_norm_in_recovery = <<>>],
                         ret |-> "near_fall"]
                   ELSE IF left <= 0
                   THEN [obj |-> [d EXCEPT
                            !.state = "IDLE",
                            !.recovery_frames_left = left,
                            !.lowest_norm_in_recovery = <<>>],
                         ret |-> "no_event"]
                   ELSE [obj |-> [d EXCEPT
                            !.recovery_frames_left = left,
                            !.lowest_norm_in_recovery = <<lowest>>],
                         ret |-> "no_event"]

\* A None frame that also empties the velocity ring buffer.
UpdateAbsentClearsVelocity(d) ==
    [obj |-> [d EXCEPT !.prev_norm = <<>>, !.triggered_rules = <<>>,
                       !.velocity_buf = <<>>],
     ret |-> "no_event"]

\* The landmarks-is-None branch (lines 78-81).
UpdateAbsent(d) ==
    [obj |-> [d EXCEPT !.prev_norm = <<>>, !.triggered_rules = <<>>],
     ret |-> "no_event"]

\* A rejected frame that sends the state machine back to IDLE.
UpdateRejectedToIdle(d) ==
    [obj |-> [d EXCEPT !.triggered_rules = <<>>, !.prev_norm = <<>>,
                       !.state = "IDLE", !.lowest_norm_in_recovery = <<>>],
     ret |-> "no_event"]

\* The sanity-check branch (lines 83, 102-106).
UpdateRejected(d) ==
    [obj |-> [d EXCEPT !.triggered_rules = <<>>, !.prev_norm = <<>>],
     ret |-> "no_event"]

\* update(landmarks) for a detected pose with derived quantities q.
UpdatePresent(d, q) ==
    IF Rejected(q) THEN UpdateRejected(d)
    ELSE StateMachine(Kinematics(d, q.hip_norm), q)

\* update(landmarks): the new object and the returned status.
Update(d, lm) ==
    IF lm.absent THEN UpdateAbsent(d) ELSE UpdatePresent(d, Derived(lm))

\* reset()
DetectorReset(d) ==
    [d EXCEPT !.baseline_buf = <<>>,
              !.standing_norm = <<>>,
              !.prev_norm = <<>>,
              !.velocity_buf = <<>>,
              !.state = "IDLE",
              !.recovery_frames_left = 0,
              !.lowest_norm_in_recovery = <<>>,
              !.triggered_rules = <<>>]

(* nfdObs, the history of the detector since construction or reset:
     kind      the last call: "init", "reset", or an update with an "absent",
               "rejected" (by the sanity check) or "accepted" frame,
     lm        the landmarks of the last update,
     ret       what the last update returned,
     pre       the FSM state the last update started in,
     calls     update calls made,
     calm      accepted frames seen with |peak_velocity| < VELOCITY_CALM,
     steps     steps of the caller (a step is one call, or one run of
               identical frames),
     nearFalls, sittings   how often update returned 'near_fall', 'sitting',
     rulesSeen the rules fired by any update so far,
     exact     whether hip_norm was an exact quotient on every accepted frame,
     ev        the event of the last update, an event being the frames from a
               trigger (IDLE to TRIGGERED) to the return to IDLE:
       inEvent     the last update belonged to an event,
       baseKnown   a standing baseline existed at the trigger,
       base0       that baseline,
       direct      the trigger frame itself jumped by VELOCITY_TRIGGER or more,
       allAccepted every frame of the event was accepted,
       ratioLow    every frame of the event was accepted with
                   activity_ratio < ACTIVITY_RATIO_SIT,
       peakLow     every frame of the event was accepted with hip_norm
                   <= base0 + MIN_DROP_TO_QUALIFY,
       recovery    the event entered RECOVERY,
       frames      accepted frames processed in RECOVERY,
       calls       update calls made in RECOVERY, whatever their frame,
       deepest     while in RECOVERY, the largest hip_norm of the accepted
                   frames since (and including) the one that entered it,
       nearFalls, sittings   returns of the event. *)
NoEvent ==
    [inEvent |-> FALSE, baseKnown |-> FALSE, base0 |-> <<>>, direct |-> FALSE,
     allAccepted |-> FALSE, ratioLow |-> FALSE, peakLow |-> FALSE,
     recovery |-> FALSE, frames |-> 0, calls |-> 0, deepest |-> <<>>,
     nearFalls |-> 0, sittings |-> 0]

DetectorObsNew ==
    [kind |-> "init", lm |-> AbsentPose, ret |-> "no_event", pre |-> "IDLE",
     calls |-> 0, calm |-> 0, steps |-> 0, nearFalls |-> 0, sittings |-> 0,
     rulesSeen |-> {}, exact |-> TRUE, ev |-> NoEvent]

FrameKind(lm) ==
    IF lm.absent THEN "absent"
    ELSE IF Rejected(Derived(lm)) THEN "rejected" ELSE "accepted"

Count(b) == IF b THEN 1 ELSE 0

\* Whether the frame lm, arriving at detector d, is accepted with the
\* velocities of the last up to 3 accepted frames all below VELOCITY_CALM
\* and the largest of them above -VELOCITY_CALM.
CalmFrame(d, lm) ==
    /\ FrameKind(lm) = "accepted"
    /\ LET velocity == IF d.prev_norm = <<>> THEN 0
                       ELSE Derived(lm).hip_norm - d.prev_norm[1]
           all == Append(d.velocity_buf, velocity)
           last == {all[i] : i \in Max(1, Len(all) - 2)..Len(all)}
       IN  /\ \A v \in last : v < VELOCITY_CALM
           /\ \E v \in last : v > 0 - VELOCITY_CALM

ObserveEvent(ev, d, lm, res) ==
    LET q == Derived(lm)
        accepted == FrameKind(lm) = "accepted"
        known == d.standing_norm # <<>>
    IN  IF d.state = "IDLE" /\ res.obj.state = "TRIGGERED"
        THEN [inEvent     |-> TRUE,
              baseKnown   |-> known,
              base0       |-> d.standing_norm,
              direct      |-> /\ d.prev_norm # <<>>
                              /\ q.hip_norm - d.prev_norm[1] >= VELOCITY_TRIGGER,
              allAccepted |-> TRUE,
              ratioLow    |-> RatioBelowSit(q),
              peakLow     |-> known /\ ~AboveBaseline(q.hip_norm, d.standing_norm,
                                                      MIN_DROP_TO_QUALIFY),
              recovery    |-> FALSE,
              frames      |-> 0,
              calls       |-> 0,
              deepest     |-> <<>>,
              nearFalls   |-> 0,
              sittings    |-> 0]
        ELSE IF d.state # "IDLE"
        THEN [ev EXCEPT
                !.inEvent = TRUE,
                !.allAccepted = @ /\ accepted,
                !.ratioLow = @ /\ accepted /\ RatioBelowSit(q),
                !.peakLow = @ /\ accepted /\ ev.baseKnown
                              /\ ~AboveBaseline(q.hip_norm, ev.base0,
                                                MIN_DROP_TO_QUALIFY),
                !.recovery = @ \/ res.obj.state = "RECOVERY",
                !.frames = @ + Count(accepted /\ d.state = "RECOVERY"),
                !.calls = @ + Count(d.state = "RECOVERY"),
                !.deepest = IF res.obj.state # "RECOVERY" THEN <<>>
                            ELSE IF d.state = "TRIGGERED" THEN <<q.hip_norm>>
                            ELSE IF accepted THEN <<Max(@[1], q.hip_norm)>>
                            ELSE @,
                !.nearFalls = @ + Count(res.ret = "near_fall"),
                !.sittings = @ + Count(res.ret = "sitting")]
        ELSE [ev EXCEPT !.inEvent = FALSE]

Observe(o, d, lm, res) ==
    [o EXCEPT
       !.kind = FrameKind(lm),
       !.lm = lm,
       !.ret = res.ret,
       !.pre = d.state,
       !.calls = @ + 1,
       !.calm = @ + Count(CalmFrame(d, lm)),
       !.nearFalls = @ + Count(res.ret = "near_fall"),
       !.sittings = @ + Count(res.ret = "sitting"),
       !.rulesSeen = @ \cup {res.obj.triggered_rules[i] :
                               i \in 1..Len(res.obj.triggered_rules)},
       !.exact = @ /\ (FrameKind(lm) = "accepted" => Derived(lm).exact),
       !.ev = ObserveEvent(o.ev, d, lm, res)]

\* One update call on the pair of detector and history.
Call(st, lm) ==
    LET res == CHOOSE r \in {Update(st.obj, lm)} : TRUE
    IN  [obj |-> res.obj, obs |-> Observe(st.obs, st.obj, lm, res)]

\* n update calls with the same landmarks, by halves; the test on the
\* first half only makes it be evaluated before the second starts.
RECURSIVE Feed(_, _, _)
Feed(st, lm, n) ==
    IF n = 0 THEN st
    ELSE IF n = 1 THEN Call(st, lm)
    ELSE LET half == Feed(st, lm, n \div 2)
         IN  IF half.obs.calls >= 0 THEN Feed(half, lm, n - n \div 2)
             ELSE half

\* The frames the caller passes in the exploration of the detector:
\* hip_norm 0.5, 1.0, 1.03 and 1.6 with the knees below the shoulders (where
\* activity_ratio < 0.55 for 1.0, 1.03 and 1.6), hip_norm 1.03 with the knees
\* above (activity_ratio > 0.55) at twice the size, two frames the sanity
\* check rejects (activity_ratio 10; hip_norm 2.6), and no detection.
Norms == {500, 1000, 1030, 1600}
Frames ==
    {Pose(1, n, FALSE) : n \in Norms}
      \cup {Pose(2, 1030, TRUE), BrokenPose, Pose(1, 2600, FALSE), AbsentPose}

DetectorInit ==
    /\ nfd = DetectorNew
    /\ nfdObs = DetectorObsNew

DetectorUpdate ==
    /\ nfdObs.steps < MaxSteps
    /\ \E lm \in Frames :
         \E st \in {Call([obj |-> nfd, obs |-> nfdObs], lm)} :
             /\ nfd' = st.obj
             /\ nfdObs' = [st.obs EXCEPT !.steps = @ + 1]

\* The subject holds one pose for BASELINE_FRAMES frames: that many update
\* calls with the same landmarks, taken as one step.  Explored from the
\* start of a stream and while the detector waits in RECOVERY.
DetectorStandStill ==
    /\ nfdObs.steps < MaxSteps
    /\ nfdObs.calls = 0 \/ nfd.state = "RECOVERY"
    /\ \E lm \in {Pose(1, n, FALSE) : n \in {1000, 1030}} :
         \E st \in {Feed([obj |-> nfd, obs |-> nfdObs], lm, BASELINE_FRAMES)} :
             /\ nfd' = st.obj
             /\ nfdObs' = [st.obs EXCEPT !.steps = @ + 1]

DetectorResetCall ==
    /\ nfdObs.kind \notin {"init", "reset"}
    /\ nfd' = DetectorReset(nfd)
    /\ nfdObs' = [DetectorObsNew EXCEPT !.kind = "reset",
                                        !.steps = nfdObs.steps]

\* The scenario of a stumble: BASELINE_FRAMES calm frames at hip_norm 1.00,
\* 3 frames at 1.60, 10 frames back at 1.00, at any camera distance and with
\* the knees below or above the shoulders.
ScenarioLength == BASELINE_FRAMES + 3 + 10

ScenarioNorm(i) ==
    IF i <= BASELINE_FRAMES THEN 1000
    ELSE IF i <= BASELINE_FRAMES + 3 THEN 1600 ELSE 1000

DetectorScenarioFrame ==
    /\ nfdObs.calls < ScenarioLength
    /\ \E scale \in {1, 2}, up \in BOOLEAN :
         \E st \in {Call([obj |-> nfd, obs |-> nfdObs],
                          Pose(scale, ScenarioNorm(nfdObs.calls + 1), up))} :
             /\ nfd' = st.obj
             /\ nfdObs' = st.obs

\* A subject seen standing still at hip_norm 1.0 for one frame less than,
\* or exactly, the BASELINE_FRAMES the baseline needs, and then moving
\* freely: hip_norm 1.0 or 1.6, or no detection.
MaxEdgeSteps == 6

DetectorCalmRun ==
    /\ nfdObs.calls = 0
    /\ \E n \in {BASELINE_FRAMES - 1, BASELINE_FRAMES} :
         \E st \in {Feed([obj |-> nfd, obs |-> nfdObs],
                          Pose(1, 1000, FALSE), n)} :
             /\ nfd' = st.obj
             /\ nfdObs' = [st.obs EXCEPT !.steps = @ + 1]

DetectorEdgeFrame ==
    /\ nfdObs.calls > 0
    /\ nfdObs.steps < MaxEdgeSteps
    /\ \E lm \in {Pose(1, 1000, FALSE), Pose(1, 1600, FALSE), AbsentPose} :
         \E st \in {Call([obj |-> nfd, obs |-> nfdObs], lm)} :
             /\ nfd' = st.obj
             /\ nfdObs' = [st.obs EXCEPT !.steps = @ + 1]

\* A stumble followed through RECOVERY: one frame or BASELINE_FRAMES frames
\* standing at hip_norm 1.0, then 1.6 twice (the trigger and the entry into
\* RECOVERY), taken as one step; then RECOVERY_FRAMES - 3 frames held at 1.6
\* as one step, or single frames: hip_norm 1.0, 1.6 or 1.8, a frame the
\* sanity check rejects, or no detection.
MaxMarkerSteps == 6

DetectorStumble ==
    /\ nfdObs.calls = 0
    /\ nfdObs.steps < MaxMarkerSteps
    /\ \E n \in {1, BASELINE_FRAMES} :
         \E st \in {Feed(Feed([obj |-> nfd, obs |-> nfdObs],
                               Pose(1, 1000, FALSE), n),
                          Pose(1, 1600, FALSE), 2)} :
             /\ nfd' = st.obj
             /\ nfdObs' = [st.obs EXCEPT !.steps = @ + 1]

DetectorHold ==
    /\ nfd.state = "RECOVERY"
    /\ nfd.recovery_frames_left = RECOVERY_FRAMES
    /\ nfdObs.steps < MaxMarkerSteps
    /\ \E st \in {Feed([obj |-> nfd, obs |-> nfdObs],
                        Pose(1, 1600, FALSE), RECOVERY_FRAMES - 3)} :
         /\ nfd' = st.obj
         /\ nfdObs' = [st.obs EXCEPT !.steps = @ + 1]

DetectorMarkerFrame ==
    /\ nfdObs.calls > 0
    /\ nfdObs.steps < MaxMarkerSteps
    /\ \E lm \in {Pose(1, 1000, FALSE), Pose(1, 1600, FALSE),
                   Pose(1, 1800, FALSE), BrokenPose, AbsentPose} :
         \E st \in {Call([obj |-> nfd, obs |-> nfdObs], lm)} :
             /\ nfd' = st.obj
             /\ nfdObs' = [st.obs EXCEPT !.steps = @ + 1]

\* A run through the recovery window: hip_norm 1.0, then 1.6 twice (the
\* trigger and the entry into RECOVERY), then RECOVERY_FRAMES + 1 further
\* calls with any of an accepted frame, a frame the sanity check rejects,
\* and no detection.
RecoveryRunLength == 3 + RECOVERY_FRAMES + 1

RecoveryRunFrames(i) ==
    IF i = 1 THEN {Pose(1, 1000, FALSE)}
    ELSE IF i <= 3 THEN {Pose(1, 1600, FALSE)}
    ELSE {Pose(1, 1600, FALSE), BrokenPose, AbsentPose}

DetectorRecoveryRunFrame ==
    /\ nfdObs.calls < RecoveryRunLength
    /\ \E lm \in RecoveryRunFrames(nfdObs.calls + 1) :
         \E st \in {Call([obj |-> nfd, obs |-> nfdObs], lm)} :
             /\ nfd' = st.obj
             /\ nfdObs' = st.obs

(***************************************************************************)
(* FeatureEngineer (detection/feature_engineer.py)                         *)
(*                                                                         *)
(* Landmarks carry x next to y, in the same 1e-6 units; the model carries  *)
(* the six rows the detectors read, and the bounding box is taken over     *)
(* them.  The five features are integers: hip_y and hip_velocity in 1e-6,  *)
(* spine_angle in degrees (the poses fed lean by exactly 0 or 45 degrees), *)
(* bbox_aspect_ratio in 1/1000 rounded down, kp_variance in 1e-6 computed  *)
(* from the frame means kept to three decimals.                            *)
(* A returned value is a record [none, vec]: none = TRUE is the Python     *)
(* None.                                                                   *)
(***************************************************************************)
FEATURE_COUNT == 5
Y_HISTORY_LEN == 10
MaxWindowSize == 3
MaxComputes == 6

\* The landmarks lm with x coordinates: shoulders and hips around the middle
\* of the image, the hips moved sideways by |dy| + 1e-6 when leaning.
WithX(lm, leaning) ==
    LET dy == (lm.y[23] + lm.y[24]) \div 2 - (lm.y[11] + lm.y[12]) \div 2
        lean == IF leaning THEN Abs(dy) + 1 ELSE 0
    IN  [absent |-> lm.absent,
         y |-> lm.y,
         x |-> [i \in LandmarkRows |->
                  CASE i = 11 -> 250000
                    [] i = 12 -> 350000
                    [] i \in {23, 25} -> 260000 + lean
                    [] i \in {24, 26} -> 340000 + lean]]

ZeroTuple == [j \in 1..FEATURE_COUNT |-> 0]

\* FeatureEngineer.__init__
EngineerNew(window_size) ==
    [window_size |-> window_size,
     prev_hip_y  |-> <<>>,
     y_history   |-> <<>>,
     window      |-> <<>>]

SetMax(S) == CHOOSE m \in S : \A v \in S : v <= m
SetMin(S) == CHOOSE m \in S : \A v \in S : m <= v

\* np.degrees(np.arctan2(adx, ady + 1e-6)) where it is a whole number.
SpineAngle(adx, ady) ==
    IF adx = 0 THEN 0
    ELSE IF adx = ady + 1 THEN 45
    ELSE 0 - 1

\* np.var(y_history), the history kept to three decimals.
Variance(h) ==
    LET n == Len(h)
        r == [i \in 1..n |-> h[i] \div 1000]
        sq == [i \in 1..n |-> r[i] * r[i]]
    IN  (n * SeqSum(sq) - SeqSum(r) * SeqSum(r)) \div (n * n)

\* The single-frame features of present landmarks, and the new y_history.
FrameFeatures(e, lm) ==
    LET hip_y == (lm.y[23] + lm.y[24]) \div 2
        hip_x == (lm.x[23] + lm.x[24]) \div 2
        hip_velocity == IF e.prev_hip_y # <<>> THEN hip_y - e.prev_hip_y[1]
                        ELSE 0
        shoulder_y == (lm.y[11] + lm.y[12]) \div 2
        shoulder_x == (lm.x[11] + lm.x[12]) \div 2
        dy == hip_y - shoulder_y
        dx == hip_x - shoulder_x
        spine_angle == SpineAngle(Abs(dx), Abs(dy))
        all_x == {lm.x[i] : i \in LandmarkRows}
        all_y == {lm.y[i] : i \in LandmarkRows}
        bbox_w == SetMax(all_x) - SetMin(all_x)
        bbox_h == SetMax(all_y) - SetMin(all_y)
        bbox_aspect_ratio == (bbox_h * 1000) \div (bbox_w + 1)
        mean_y == SeqSum([k \in 1..6 |->
                     lm.y[CASE k = 1 -> 11 [] k = 2 -> 12 [] k = 3 -> 23
                            [] k = 4 -> 24 [] k = 5 -> 25 [] k = 6 -> 26]])
                    \div 6
        y_history == DequeAppend(e.y_history, mean_y, Y_HISTORY_LEN)
        kp_variance == Variance(y_history)
    IN  [hip_y |-> hip_y,
         y_history |-> y_history,
         features |-> <<hip_y, hip_velocity, spine_angle, bbox_aspect_ratio,
                        kp_variance>>]

\* The flat list in frame-major order.
FlattenFrameMajor(window, window_size) ==
    [k \in 1..(FEATURE_COUNT * window_size) |->
        window[((k - 1) \div FEATURE_COUNT) + 1][((k - 1) % FEATURE_COUNT) + 1]]

\* flat = [window[i][j] for j in range(5) for i in range(window_size)]:
\* list position j * window_size + i (from 0) holds window[i][j].
Flatten(window, window_size) ==
    [k \in 1..(FEATURE_COUNT * window_size) |->
        window[((k - 1) % window_size) + 1][((k - 1) \div window_size) + 1]]

NoVector == [none |-> TRUE, vec |-> <<>>]

\* The None branch with the last tuple repeated as the placeholder.
ComputeAbsentRepeatsLast(e) ==
    [obj |-> [e EXCEPT !.window = DequeAppend(e.window,
                                     IF e.window = <<>> THEN ZeroTuple
                                     ELSE e.window[Len(e.window)],
                                     e.window_size),
                       !.prev_hip_y = <<>>],
     ret |-> NoVector]

\* The None branch without the placeholder.
ComputeAbsentSkips(e) ==
    [obj |-> [e EXCEPT !.prev_hip_y = <<>>], ret |-> NoVector]

\* compute(None)
ComputeAbsent(e) ==
    [obj |-> [e EXCEPT !.window = DequeAppend(e.window, ZeroTuple,
                                              e.window_size),
                       !.prev_hip_y = <<>>],
     ret |-> NoVector]

\* compute(landmarks) that still warms up when the window has just filled.
ComputePresentOneLate(e, lm) ==
    LET f == CHOOSE r \in {FrameFeatures(e, lm)} : TRUE
        window == DequeAppend(e.window, f.features, e.window_size)
        obj == [e EXCEPT !.prev_hip_y = <<f.hip_y>>,
                         !.y_history = f.y_history,
                         !.window = window]
    IN  IF Len(e.window) < e.window_size
        THEN [obj |-> obj, ret |-> NoVector]
        ELSE [obj |-> obj,
              ret |-> [none |-> FALSE, vec |-> Flatten(window, e.window_size)]]

\* compute(landmarks), landmarks not None
ComputePresent(e, lm) ==
    LET f == CHOOSE r \in {FrameFeatures(e, lm)} : TRUE
        window == DequeAppend(e.window, f.features, e.window_size)
        obj == [e EXCEPT !.prev_hip_y = <<f.hip_y>>,
                         !.y_history = f.y_history,
                         !.window = window]
    IN  IF Len(window) < e.window_size
        THEN [obj |-> obj, ret |-> NoVector]
        ELSE [obj |-> obj,
              ret |-> [none |-> FALSE, vec |-> Flatten(window, e.window_size)]]

\* compute(landmarks): the new object and the returned value.
Compute(e, lm) ==
    IF lm.absent THEN ComputeAbsent(e) ELSE ComputePresent(e, lm)

\* reset()
EngineerReset(e) ==
    [e EXCEPT !.prev_hip_y = <<>>, !.y_history = <<>>, !.window = <<>>]

(* engObs: op          the last call, "init", "compute" or "reset",
           ret         what the last compute returned,
           clock       compute calls since construction,
           calls       compute calls since construction or the last reset,
           onlyAbsent  every one of these calls passed None,
           onlyPresent every one of these calls passed landmarks,
           angleExact  the spine angle was a whole number of degrees on every
                       present frame,
           tuple       the features of the frame of the last compute, the
                       zero tuple for None,
           absents     for each of these calls in order, whether it passed
                       None. *)
EngineerObsNew ==
    [op |-> "init", ret |-> NoVector, clock |-> 0, calls |-> 0,
     onlyAbsent |-> TRUE, onlyPresent |-> TRUE, angleExact |-> TRUE,
     tuple |-> ZeroTuple, absents |-> <<>>]

\* The frames passed to compute: standing, dropped, standing and leaning by
\* 45 degrees, and no detection.
FeatureFrames ==
    {WithX(Pose(1, 1000, FALSE), FALSE), WithX(Pose(1, 1600, FALSE), FALSE),
     WithX(Pose(1, 1000, FALSE), TRUE), WithX(AbsentPose, FALSE)}

EngineerInit ==
    /\ eng \in {EngineerNew(w) : w \in 1..MaxWindowSize}
    /\ engObs = EngineerObsNew

EngineerIdle ==
    /\ eng = EngineerNew(1)
    /\ engObs = EngineerObsNew

EngineerCompute ==
    /\ engObs.clock < MaxComputes
    /\ \E lm \in FeatureFrames :
         \E res \in {Compute(eng, lm)} :
           /\ eng' = res.obj
           /\ engObs' = [engObs EXCEPT
                  !.op = "compute",
                  !.ret = res.ret,
                  !.clock = @ + 1,
                  !.calls = @ + 1,
                  !.onlyAbsent = @ /\ lm.absent,
                  !.onlyPresent = @ /\ ~lm.absent,
                  !.angleExact = @ /\ (lm.absent
                                       \/ res.obj.window[Len(res.obj.window)][3] >= 0),
                  !.tuple = IF lm.absent THEN ZeroTuple
                            ELSE FrameFeatures(eng, lm).features,
                  !.absents = Append(@, lm.absent)]

\* reset() starts a new stream.
EngineerResetCall ==
    /\ engObs.op = "compute"
    /\ eng' = EngineerReset(eng)
    /\ engObs' = [EngineerObsNew EXCEPT !.op = "reset", !.clock = engObs.clock]

(***************************************************************************)
(* DetectionPipeline (fall_detection/pipeline.py)                          *)
(*                                                                         *)
(* The pipeline is the record [eng, clf, nfd] of its three components; the *)
(* variables eng, clf and nfd hold them.  The pose estimator is outside:   *)
(* a frame is modelled by the landmarks it yields, absent when it finds no *)
(* pose.  The scorer is opaque: each frame comes with the probability the  *)
(* scorer gives the vector computed for it.  A FrameResult is the record   *)
(* [rf_status, near_fall_status, alert, pose, debug_rules], pose telling   *)
(* whether pose_landmarks is not None.                                     *)
(***************************************************************************)
WINDOW_SIZE == 50
RF_CONFIRMATION_WINDOWS == 3
SAVED_THRESHOLD == 50
MaxFrames == 5

\* DetectionPipeline.__init__
PipelineNew ==
    [eng |-> EngineerNew(WINDOW_SIZE),
     clf |-> ClassifierNew(SAVED_THRESHOLD, RF_CONFIRMATION_WINDOWS),
     nfd |-> DetectorNew]

NoPoseResult ==
    [rf_status |-> "no_fall", near_fall_status |-> "no_event",
     alert |-> FALSE, pose |-> FALSE, debug_rules |-> <<>>]

\* The composite alert of line 122.
Alert(rf_status, near_fall_status) ==
    rf_status \in {"fall", "confirming"} \/ near_fall_status = "near_fall"

\* An alert that 'sitting' raises too.
ProcessPoseSittingAlerts(p, lm, proba) ==
    LET flat == CHOOSE r \in {Compute(p.eng, lm)} : TRUE
        rf == CHOOSE r \in {Predict(p.clf, [none |-> flat.ret.none,
                                            proba |-> IF flat.ret.none THEN 0
                                                      ELSE proba])} : TRUE
        nf == CHOOSE r \in {Update(p.nfd, lm)} : TRUE
    IN  [obj |-> [eng |-> flat.obj, clf |-> rf.obj, nfd |-> nf.obj],
         result |-> [rf_status |-> rf.ret,
                     near_fall_status |-> nf.ret,
                     alert |-> Alert(rf.ret, nf.ret) \/ nf.ret = "sitting",
                     pose |-> TRUE,
                     debug_rules |-> nf.obj.triggered_rules]]

\* process_frame when the pose estimator returned landmarks (lines 109-134).
ProcessPose(p, lm, proba) ==
    LET flat == CHOOSE r \in {Compute(p.eng, lm)} : TRUE
        rf == CHOOSE r \in {Predict(p.clf, [none |-> flat.ret.none,
                                            proba |-> IF flat.ret.none THEN 0
                                                      ELSE proba])} : TRUE
        nf == CHOOSE r \in {Update(p.nfd, lm)} : TRUE
    IN  [obj |-> [eng |-> flat.obj, clf |-> rf.obj, nfd |-> nf.obj],
         result |-> [rf_status |-> rf.ret,
                     near_fall_status |-> nf.ret,
                     alert |-> Alert(rf.ret, nf.ret),
                     pose |-> TRUE,
                     debug_rules |-> nf.obj.triggered_rules]]

\* process_frame(frame_bgr): the pipeline afterwards and the FrameResult.
\* Without landmarks it returns at line 100, before any component is called.
ProcessFrame(p, lm, proba) ==
    IF lm.absent THEN [obj |-> p, result |-> NoPoseResult]
    ELSE ProcessPose(p, lm, proba)

\* reset() that forgets the near-fall detector.
PipelineResetKeepsNearFall(p) ==
    [eng |-> EngineerReset(p.eng),
     clf |-> ClassifierReset(p.clf),
     nfd |-> p.nfd]

\* DetectionPipeline.reset
PipelineReset(p) ==
    [eng |-> EngineerReset(p.eng),
     clf |-> ClassifierReset(p.clf),
     nfd |-> DetectorReset(p.nfd)]

(* pipeObs: op      the last call, "init", "process_frame" or "reset",
            lm      the landmarks of the last process_frame,
            result  the FrameResult of the last process_frame,
            frames  process_frame calls made one by one since construction
                    or reset,
            resets  reset calls made,
            found   after a reset, what it found: the length of the feature
                    window, the classifier's latch, the FSM state and
                    whether a baseline existed. *)
NothingFound ==
    [window |-> 0, latch |-> FALSE, state |-> "IDLE", baseline |-> FALSE]

PipelineObsNew ==
    [op |-> "init", lm |-> WithX(AbsentPose, FALSE), result |-> NoPoseResult,
     frames |-> 0, resets |-> 0, found |-> NothingFound]

\* One process_frame call on the pair of pipeline and history.
PipelineCall(st, lm, proba) ==
    LET res == CHOOSE r \in {ProcessFrame(st.obj, lm, proba)} : TRUE
    IN  [obj |-> res.obj,
         obs |-> [st.obs EXCEPT !.op = "process_frame", !.lm = lm,
                                !.result = res.result,
                                !.found = NothingFound]]

\* n process_frame calls with the same landmarks and score, by halves.
RECURSIVE PipelineFeed(_, _, _, _)
PipelineFeed(st, lm, proba, n) ==
    IF n = 0 THEN st
    ELSE IF n = 1 THEN PipelineCall(st, lm, proba)
    ELSE LET half == PipelineFeed(st, lm, proba, n \div 2)
         IN  IF half.obs.frames >= 0
             THEN PipelineFeed(half, lm, proba, n - n \div 2)
             ELSE half

\* The frames of the exploration: standing (hip_norm 1.00), slightly lower
\* in the image (1.02), dropped (1.60), slightly risen (0.97), and no pose.
PipelineFrames ==
    {WithX(Pose(1, n, FALSE), FALSE) : n \in {970, 1000, 1020, 1600}}
      \cup {WithX(AbsentPose, FALSE)}

\* The scores: below and above the threshold.
PipelineScores == {20, 80}

PipelineIdle == pipeObs = PipelineObsNew

PipelineInit ==
    /\ eng = PipelineNew.eng
    /\ clf = PipelineNew.clf
    /\ nfd = PipelineNew.nfd
    /\ pipeObs = PipelineObsNew

PipelineProcessFrame ==
    /\ pipeObs.frames < MaxFrames
    /\ \E lm \in PipelineFrames :
         \E proba \in IF lm.absent \/ Len(eng.window) + 1 < eng.window_size
                      THEN {0} ELSE PipelineScores :
           \E st \in {PipelineCall([obj |-> [eng |-> eng, clf |-> clf,
                                             nfd |-> nfd],
                                    obs |-> pipeObs], lm, proba)} :
             /\ eng' = st.obj.eng
             /\ clf' = st.obj.clf
             /\ nfd' = st.obj.nfd
             /\ pipeObs' = [st.obs EXCEPT !.frames = @ + 1]

\* The subject stands still for WINDOW_SIZE frames, which fills the feature
\* window and the baseline buffer: that many process_frame calls, scored
\* below the threshold, taken as one step at the start of a stream.
PipelineStandStill ==
    /\ pipeObs.op \in {"init", "reset"}
    /\ \E st \in {PipelineFeed([obj |-> [eng |-> eng, clf |-> clf, nfd |-> nfd],
                                obs |-> pipeObs],
                               WithX(Pose(1, 1000, FALSE), FALSE), 20,
                               WINDOW_SIZE)} :
         /\ eng' = st.obj.eng
         /\ clf' = st.obj.clf
         /\ nfd' = st.obj.nfd
         /\ pipeObs' = st.obs

PipelineResetCall ==
    /\ pipeObs.op = "process_frame"
    /\ pipeObs.resets < 1
    /\ \E p \in {PipelineReset([eng |-> eng, clf |-> clf, nfd |-> nfd])} :
         /\ eng' = p.eng
         /\ clf' = p.clf
         /\ nfd' = p.nfd
    /\ pipeObs' = [PipelineObsNew EXCEPT
           !.op = "reset",
           !.resets = pipeObs.resets + 1,
           !.found = [window |-> Len(eng.window),
                      latch |-> clf.fall_declared,
                      state |-> nfd.state,
                      baseline |-> nfd.standing_norm # <<>>]]

(***************************************************************************)
(* MonitoringScreen (ui/monitoring_screen.py)                              *)
(*                                                                         *)
(* app holds the attributes of the screen, workers the capture threads     *)
(* started so far (each at a position of _capture_loop), rec the           *)
(* EventLogger of the running session.  The handlers of the main thread    *)
(* (button presses, _poll, _start_assessment) run one at a time, as Tk     *)
(* dispatches them; each step of a worker is one access to what it shares  *)
(* with the main thread.  The pipeline is seen from outside: a             *)
(* process_frame call returns one of the FrameResults a DetectionPipeline  *)
(* produces.  Time is in seconds and advances in ticks.                    *)
(***************************************************************************)
FRAME_QUEUE_MAXSIZE == 2
FALL_COOLDOWN == 30
FPS == 15
SECONDS_AFTER == 0
StartTime == 100
TickSeconds == 40
MaxReads == 3
MaxSessions == 1
MaxTicks == 1
MaxRestartSessions == 2

\* queue.Queue.put that never refuses.
QueuePutUnbounded(q, x, maxsize) == [q |-> Append(q, x), full |-> FALSE]

\* queue.Queue(maxsize).put_nowait(x): the queue afterwards and whether
\* queue.Full was raised.
QueuePutNowait(q, x, maxsize) ==
    IF Len(q) >= maxsize THEN [q |-> q, full |-> TRUE]
    ELSE [q |-> Append(q, x), full |-> FALSE]

\* The FrameResults process_frame hands to the capture loop: a quiet frame,
\* a confirmed fall, a near-fall.
AppResults ==
    {[rf_status |-> s[1], near_fall_status |-> s[2],
      alert |-> Alert(s[1], s[2]), pose |-> TRUE,
      debug_rules |-> IF s[2] = "near_fall"
                      THEN <<"recovery_detected">> ELSE <<>>] :
       s \in {<<"no_fall", "no_event">>, <<"fall", "no_event">>,
              <<"no_fall", "near_fall">>}}

\* MonitoringScreen.__init__
AppNew ==
    [running         |-> FALSE,
     in_assessment   |-> FALSE,
     cap             |-> FALSE,
     pipeline        |-> FALSE,
     event_logger    |-> FALSE,
     frame_queue     |-> <<>>,
     clip_queue      |-> <<>>,
     last_fall_time  |-> 0,
     overlay_visible |-> FALSE,
     polls           |-> 0,
     assessments     |-> 0,
     main            |-> "idle",
     now             |-> StartTime]

\* threading.Thread(target = self._capture_loop).start()
WorkerNew == [pc |-> "top", frame |-> 0, result |-> NoPoseResult]

(* appObs: op        the last step taken: "handle_result" (a _poll that
                     found a result), "worker_put", or "other",
           handled   the FrameResult that step passed to _handle_result,
           triggered whether that _handle_result called on_fall_detected,
           dropped   whether that put discarded its result,
           put       the FrameResult that put offered to the queue,
           queued    the frame each result of the frame queue was computed
                     from, in queue order,
           handledFrame  the frame the handled result was computed from,
           lastDropped   the latest frame whose result a put discarded
                         (0: none yet),
           reads     frames read from the camera,
           sessions  monitoring sessions started,
           ticks     ticks of the clock. *)
AppObsNew ==
    [op |-> "other", handled |-> NoPoseResult, triggered |-> FALSE,
     dropped |-> FALSE, put |-> NoPoseResult, queued |-> <<>>,
     handledFrame |-> 0, lastDropped |-> 0,
     reads |-> 0, sessions |-> 0, ticks |-> 0]

\* The history after a step that is neither a put nor a _handle_result.
AppObserveOther(o) ==
    [o EXCEPT !.op = "other", !.handled = NoPoseResult, !.triggered = FALSE,
              !.dropped = FALSE, !.put = NoPoseResult, !.handledFrame = 0]

\* _handle_result that does not look at the assessment flag.
HandleResultIgnoresFlag(a, r, result) ==
    IF result.rf_status = "fall"
         /\ a.now - a.last_fall_time > FALL_COOLDOWN
    THEN [app |-> [a EXCEPT !.last_fall_time = a.now,
                            !.in_assessment = TRUE,
                            !.assessments = @ + 1],
          rec |-> IF a.event_logger THEN OnFallDetected(r) ELSE r,
          triggered |-> a.event_logger]
    ELSE [app |-> a, rec |-> r, triggered |-> FALSE]

\* _handle_result(result): the screen and recorder afterwards, and whether
\* on_fall_detected was called.
HandleResult(a, r, result) ==
    IF result.rf_status = "fall"
         /\ ~a.in_assessment
         /\ a.now - a.last_fall_time > FALL_COOLDOWN
    THEN [app |-> [a EXCEPT !.last_fall_time = a.now,
                            !.in_assessment = TRUE,
                            !.assessments = @ + 1],
          rec |-> IF a.event_logger THEN OnFallDetected(r) ELSE r,
          triggered |-> a.event_logger]
    ELSE [app |-> a, rec |-> r, triggered |-> FALSE]

\* _poll(): one result taken from the frame queue and handled, the clip
\* queue drained, the next poll scheduled.
Poll(a, r) ==
    IF ~a.running THEN [app |-> a, rec |-> r, handled |-> <<>>,
                        triggered |-> FALSE]
    ELSE LET h == IF a.frame_queue = <<>>
                  THEN [app |-> a, rec |-> r, triggered |-> FALSE]
                  ELSE HandleResult([a EXCEPT !.frame_queue = Tail(@)], r,
                                    Head(a.frame_queue))
         IN  [app |-> [h.app EXCEPT !.clip_queue = <<>>, !.polls = @ + 1],
              rec |-> h.rec,
              handled |-> IF a.frame_queue = <<>> THEN <<>>
                          ELSE <<Head(a.frame_queue)>>,
              triggered |-> h.triggered]

AppInit ==
    /\ app = AppNew
    /\ workers = <<>>
    /\ appObs = AppObsNew

AppIdle == AppInit

\* What a step of Poll leaves in the history.
AppObservePoll(o, p) ==
    IF p.handled = <<>> THEN AppObserveOther(o)
    ELSE [o EXCEPT !.op = "handle_result", !.handled = p.handled[1],
                   !.triggered = p.triggered, !.dropped = FALSE,
                   !.put = NoPoseResult,
                   !.handledFrame = Head(o.queued), !.queued = Tail(@)]

\* _toggle_monitoring while stopped: _start_monitoring, which ends in a
\* first _poll(); at most `sessions` monitoring sessions are started.
StartMonitoring(sessions) ==
    /\ app.main = "idle"
    /\ ~app.running
    /\ appObs.sessions < sessions
    /\ \E opened \in BOOLEAN :
         IF ~opened
         THEN /\ app' = [app EXCEPT !.cap = TRUE]
              /\ appObs' = AppObserveOther(appObs)
              /\ UNCHANGED <<workers, rec>>
         ELSE \E p \in {Poll([app EXCEPT !.cap = TRUE, !.pipeline = TRUE,
                                         !.event_logger = TRUE,
                                         !.running = TRUE],
                             RecorderNew(FPS, SECONDS_AFTER))} :
                /\ app' = p.app
                /\ rec' = p.rec
                /\ workers' = Append(workers, WorkerNew)
                /\ appObs' = [AppObservePoll(appObs, p) EXCEPT
                                 !.sessions = @ + 1]

AppStartMonitoring == StartMonitoring(MaxSessions)

\* The start button in a run where monitoring is started again after a stop.
AppRestartMonitoring == StartMonitoring(MaxRestartSessions)

\* _toggle_monitoring while running: _stop_monitoring.
AppStopMonitoring ==
    /\ app.main = "idle"
    /\ app.running
    /\ app' = [app EXCEPT !.running = FALSE, !.cap = FALSE,
                          !.pipeline = FALSE, !.event_logger = FALSE]
    /\ rec' = IF app.event_logger THEN RecorderReset(rec) ELSE rec
    /\ appObs' = AppObserveOther(appObs)
    /\ UNCHANGED workers

\* A scheduled _poll fires.
AppPoll ==
    /\ app.main = "idle"
    /\ app.polls > 0
    /\ \E p \in {Poll([app EXCEPT !.polls = @ - 1], rec)} :
         /\ app' = p.app
         /\ rec' = p.rec
         /\ appObs' = AppObservePoll(appObs, p)
    /\ UNCHANGED workers

\* The scheduled _start_assessment fires; without a configuration it
\* returns at once, otherwise run_assessment keeps the main thread.
AppStartAssessment ==
    /\ app.main = "idle"
    /\ app.assessments > 0
    /\ \E configured \in BOOLEAN :
         app' = [app EXCEPT !.assessments = @ - 1,
                            !.in_assessment = configured,
                            !.main = IF configured THEN "assessing"
                                     ELSE "idle"]
    /\ appObs' = AppObserveOther(appObs)
    /\ UNCHANGED <<workers, rec>>

\* run_assessment returns and the overlay is shown, or it raises.
AppAssessmentReturns ==
    /\ app.main = "assessing"
    /\ \E raised \in BOOLEAN :
         app' = [app EXCEPT !.main = "idle",
                            !.overlay_visible = IF raised THEN @ ELSE TRUE,
                            !.in_assessment = IF raised THEN FALSE ELSE @]
    /\ appObs' = AppObserveOther(appObs)
    /\ UNCHANGED <<workers, rec>>

\* _dismiss_overlay
AppDismissOverlay ==
    /\ app.main = "idle"
    /\ app.overlay_visible
    /\ app' = [app EXCEPT !.overlay_visible = FALSE, !.in_assessment = FALSE]
    /\ appObs' = AppObserveOther(appObs)
    /\ UNCHANGED <<workers, rec>>

\* Time passes; before the first handled fall no amount of it matters.
AppTick ==
    /\ appObs.ticks < MaxTicks
    /\ app.last_fall_time # 0
    /\ app' = [app EXCEPT !.now = @ + TickSeconds]
    /\ appObs' = [AppObserveOther(appObs) EXCEPT !.ticks = @ + 1]
    /\ UNCHANGED <<workers, rec>>

\* One step of capture thread w in _capture_loop.
WorkerStep(w) ==
    LET me == workers[w]
        goto(pc) == [workers EXCEPT ![w].pc = pc]
    IN  CASE me.pc = "top" ->
               /\ workers' = goto(IF app.running THEN "check" ELSE "done")
               /\ appObs' = AppObserveOther(appObs)
               /\ UNCHANGED <<app, rec>>
          [] me.pc = "check" ->
               /\ workers' = goto(IF app.in_assessment THEN "top" ELSE "read")
               /\ appObs' = AppObserveOther(appObs)
               /\ UNCHANGED <<app, rec>>
          [] me.pc = "read" ->
               /\ appObs.reads < MaxReads
               /\ IF ~app.cap
                  THEN /\ workers' = goto("crashed")
                       /\ appObs' = AppObserveOther(appObs)
                  ELSE \E ret \in BOOLEAN :
                         /\ workers' = IF ret
                              THEN [workers EXCEPT ![w].pc = "process",
                                                   ![w].frame = appObs.reads + 1]
                              ELSE goto("done")
                         /\ appObs' = [AppObserveOther(appObs) EXCEPT
                                           !.reads = @ + 1]
               /\ UNCHANGED <<app, rec>>
          [] me.pc = "process" ->
               /\ IF ~app.pipeline
                  THEN workers' = goto("crashed")
                  ELSE \E result \in AppResults :
                         workers' = [workers EXCEPT ![w].pc = "add_frame",
                                                    ![w].result = result]
               /\ appObs' = AppObserveOther(appObs)
               /\ UNCHANGED <<app, rec>>
          [] me.pc = "add_frame" ->
               /\ IF app.event_logger
                  THEN \E res \in {AddFrame(rec, me.frame)} :
                         /\ rec' = res.obj
                         /\ app' = IF res.ret # None
                                   THEN [app EXCEPT !.clip_queue =
                                                        Append(@, res.ret)]
                                   ELSE app
                  ELSE UNCHANGED <<app, rec>>
               /\ workers' = goto("put")
               /\ appObs' = AppObserveOther(appObs)
          [] me.pc = "put" ->
               \E put \in {QueuePutNowait(app.frame_queue, me.result,
                                          FRAME_QUEUE_MAXSIZE)} :
                 /\ app' = [app EXCEPT !.frame_queue = put.q]
                 /\ workers' = goto("top")
                 /\ appObs' = [AppObserveOther(appObs) EXCEPT
                        !.op = "worker_put",
                        !.dropped = put.full,
                        !.put = me.result,
                        !.queued = IF put.full THEN @
                                   ELSE Append(@, me.frame),
                        !.lastDropped = IF put.full THEN Max(@, me.frame)
                                        ELSE @]
                 /\ UNCHANGED rec
          [] OTHER -> FALSE

AppWorker == \E w \in 1..Len(workers) : WorkerStep(w)

(***************************************************************************)
(* The post-fall response (response/voice_assistant.py,                   *)
(* response/emergency_alert.py, response/pipeline.py)                      *)
(*                                                                         *)
(* The devices are outside: a listen is modelled by what the microphone    *)
(* and whisper do with it (recording raises, transcription raises, or a    *)
(* transcript comes back), the credentials by the state of the .env file,  *)
(* a Twilio call by its outcome.  A transcript is the record               *)
(* [text, safe, help]: safe tells whether one of SAFE_KEYWORDS occurs in   *)
(* text, help whether one of HELP_KEYWORDS does.  An AlertResult is the    *)
(* record [action, success, error] (the timestamp is left out), an action  *)
(* text the tuple of its parts.  A call that can raise returns a record    *)
(* with the field raised.  Logging, printing, speaking (speak catches     *)
(* what the speech engine raises) and the status callback return           *)
(* normally.  An optional list is <<>> for None and <<l>>                  *)
(* for the list l.  resp holds the arguments of one call and, once the     *)
(* call is made, what it returned.                                         *)
(***************************************************************************)
SAFE == "safe"
HELP_NEEDED == "help_needed"
NO_RESPONSE == "no_response"
MaxContacts == 2

\* What whisper can hand back: silence, the blank marker, "i'm fine",
\* "help", "i'm fine, no help needed", and words of neither list.
Transcripts ==
    {[text |-> "", safe |-> FALSE, help |-> FALSE],
     [text |-> "[blank_audio]", safe |-> FALSE, help |-> FALSE],
     [text |-> "i'm fine", safe |-> TRUE, help |-> FALSE],
     [text |-> "help", safe |-> FALSE, help |-> TRUE],
     [text |-> "i'm fine, no help needed", safe |-> TRUE, help |-> TRUE],
     [text |-> "hello", safe |-> FALSE, help |-> FALSE]}

\* One listen: where it fails ("none": nowhere) and the transcript.
Audios ==
    {[fails |-> f, transcript |-> [text |-> "", safe |-> FALSE,
                                   help |-> FALSE]] :
       f \in {"record", "transcribe"}}
      \cup {[fails |-> "none", transcript |-> t] : t \in Transcripts}

\* VoiceAssistant._classify_response
ClassifyResponse(transcript) ==
    IF transcript.text = "" \/ transcript.text = "[blank_audio]"
    THEN NO_RESPONSE
    ELSE IF transcript.safe THEN SAFE
    ELSE IF transcript.help THEN HELP_NEEDED
    ELSE NO_RESPONSE

\* _listen_and_classify without its except clause.
ListenAndClassifyPropagates(audio) ==
    IF audio.fails # "none" THEN [ret |-> None, raised |-> TRUE]
    ELSE [ret |-> ClassifyResponse(audio.transcript), raised |-> FALSE]

\* VoiceAssistant._listen_and_classify
ListenAndClassify(audio) ==
    IF audio.fails # "none" THEN [ret |-> NO_RESPONSE, raised |-> FALSE]
    ELSE [ret |-> ClassifyResponse(audio.transcript), raised |-> FALSE]

\* What run_checkin says after a listen classified c (speak never raises).
Confirmation(c) ==
    IF c = SAFE THEN "glad you're safe" ELSE "contacting your contacts"

\* run_checkin that prompts again unless the user said to be safe.
RunCheckinSecondUnlessSafe(audio1, audio2) ==
    LET l1 == ListenAndClassify(audio1)
        l2 == ListenAndClassify(audio2)
    IN  IF l1.raised
        THEN [ret |-> None, raised |-> TRUE, prompts |-> 1, classes |-> <<>>,
              spoken |-> <<"first prompt">>]
        ELSE IF l1.ret = SAFE
        THEN [ret |-> l1.ret, raised |-> FALSE, prompts |-> 1,
              classes |-> <<l1.ret>>,
              spoken |-> <<"first prompt", Confirmation(l1.ret)>>]
        ELSE IF l2.raised
        THEN [ret |-> None, raised |-> TRUE, prompts |-> 2,
              classes |-> <<l1.ret>>,
              spoken |-> <<"first prompt", "second prompt">>]
        ELSE [ret |-> l2.ret, raised |-> FALSE, prompts |-> 2,
              classes |-> <<l1.ret, l2.ret>>,
              spoken |-> <<"first prompt", "second prompt",
                           Confirmation(l2.ret)>>]

\* VoiceAssistant.run_checkin: the value returned, whether it raised, the
\* prompts issued, the class of each listen, everything spoken.
RunCheckin(audio1, audio2) ==
    LET l1 == ListenAndClassify(audio1)
        l2 == ListenAndClassify(audio2)
    IN  IF l1.raised
        THEN [ret |-> None, raised |-> TRUE, prompts |-> 1, classes |-> <<>>,
              spoken |-> <<"first prompt">>]
        ELSE IF l1.ret = SAFE \/ l1.ret = HELP_NEEDED
        THEN [ret |-> l1.ret, raised |-> FALSE, prompts |-> 1,
              classes |-> <<l1.ret>>,
              spoken |-> <<"first prompt", Confirmation(l1.ret)>>]
        ELSE IF l2.raised
        THEN [ret |-> None, raised |-> TRUE, prompts |-> 2,
              classes |-> <<l1.ret>>,
              spoken |-> <<"first prompt", "second prompt">>]
        ELSE [ret |-> l2.ret, raised |-> FALSE, prompts |-> 2,
              classes |-> <<l1.ret, l2.ret>>,
              spoken |-> <<"first prompt", "second prompt",
                           Confirmation(l2.ret)>>]

\* EmergencyContact number i of the address book.
Contact(i) == [name |-> <<"contact", i>>, phone |-> <<"+1212555", i>>]

\* The contact lists a configuration can hold: up to MaxContacts contacts
\* in any order, or None.
ContactLists ==
    {<<>>} \cup
    {<<[i \in 1..Len(s) |-> Contact(s[i])]>> :
       s \in {q \in UNION {[1..n -> 1..MaxContacts] : n \in 0..MaxContacts} :
                \A i, j \in 1..Len(q) : q[i] = q[j] => i = j}}

\* What calls.create does: places the call, raises TwilioRestException,
\* raises something else.
CallOutcomes == {"ok", "twilio_error", "error"}

\* EmergencyAlerter._make_call
MakeCall(contact, outcome) ==
    [action |-> <<"Call to", contact.name, contact.phone>>,
     success |-> outcome = "ok",
     error |-> CASE outcome = "ok" -> None
                 [] outcome = "twilio_error" -> "exc.msg"
                 [] OTHER -> "str(exc)"]

\* EmergencyAlerter._mock_dispatch_emergency_services
MockDispatch ==
    [action |-> <<"Mock dispatch to emergency services">>,
     success |-> TRUE, error |-> None]

\* send_alert that gives up calling at the first call that fails.
SendAlertStopsAtFailure(contacts, outcomes) ==
    IF contacts = <<>> THEN [raised |-> TRUE, results |-> <<>>]
    ELSE LET failed == {i \in 1..Len(contacts[1]) : outcomes[i] # "ok"}
             n == IF failed = {} THEN Len(contacts[1])
                  ELSE CHOOSE i \in failed : \A j \in failed : i <= j
         IN  [raised |-> FALSE,
              results |-> Append([i \in 1..n |->
                                    MakeCall(contacts[1][i], outcomes[i])],
                                 MockDispatch)]

\* EmergencyAlerter.send_alert; outcomes[i] is the outcome of the i-th
\* call.  Iterating over a missing contact list raises.
SendAlert(contacts, outcomes) ==
    IF contacts = <<>> THEN [raised |-> TRUE, results |-> <<>>]
    ELSE [raised |-> FALSE,
          results |-> Append([i \in 1..Len(contacts[1]) |->
                                MakeCall(contacts[1][i], outcomes[i])],
                             MockDispatch)]

\* The state of the .env file and of the Twilio client constructor.
Environments == {"complete", "missing_credentials", "client_raises"}

\* EmergencyAlerter.__init__: the exception it raises, None if none.
EmergencyAlerterNew(env) ==
    CASE env = "missing_credentials" -> "EnvironmentError"
      [] env = "client_raises" -> "Exception"
      [] OTHER -> None

\* The AlertResult run_assessment reports for a failed alert step.
FailedAlert(exc) ==
    [action |-> <<"Emergency alert">>, success |-> FALSE, error |-> exc]

\* How run_assessment gets its assistant: passed in, constructed, or the
\* constructor raises (the whisper model cannot be loaded).
Assistants == {"given", "constructed", "constructor_raises"}

NoAssessment ==
    [raised |-> FALSE, outcome |-> None, alert_sent |-> FALSE,
     alert_results |-> <<>>, alerter |-> FALSE, status |-> <<>>]

\* run_assessment without the except clauses around the alert step.
RunAssessmentUnguarded(contacts, env, assistant, audio1, audio2, outcomes) ==
    IF assistant = "constructor_raises"
    THEN [NoAssessment EXCEPT !.raised = TRUE, !.status = <<"checking in">>]
    ELSE LET c == CHOOSE r \in {RunCheckin(audio1, audio2)} : TRUE
             s == CHOOSE r \in {SendAlert(contacts, outcomes)} : TRUE
         IN  IF c.raised
             THEN [NoAssessment EXCEPT !.raised = TRUE,
                                       !.status = <<"checking in">>]
             ELSE IF c.ret = SAFE
             THEN [NoAssessment EXCEPT !.outcome = c.ret,
                       !.status = <<"checking in", "confirmed safe">>]
             ELSE IF EmergencyAlerterNew(env) # None \/ s.raised
             THEN [NoAssessment EXCEPT !.raised = TRUE, !.outcome = c.ret,
                       !.alerter = TRUE,
                       !.status = <<"checking in", "contacting">>]
             ELSE [NoAssessment EXCEPT !.outcome = c.ret,
                       !.alert_sent = TRUE, !.alert_results = s.results,
                       !.alerter = TRUE,
                       !.status = <<"checking in", "contacting",
                                    "alert sequence complete">>]

\* run_assessment(config, on_status, voice_assistant, test_mode): the
\* AssessmentResult, whether the call raised instead, whether an
\* EmergencyAlerter was constructed (attempted), the status messages.
RunAssessment(contacts, env, assistant, audio1, audio2, outcomes) ==
    IF assistant = "constructor_raises"
    THEN [NoAssessment EXCEPT !.raised = TRUE, !.status = <<"checking in">>]
    ELSE LET c == CHOOSE r \in {RunCheckin(audio1, audio2)} : TRUE
             s == CHOOSE r \in {SendAlert(contacts, outcomes)} : TRUE
         IN  IF c.raised
             THEN [NoAssessment EXCEPT !.raised = TRUE,
                                       !.status = <<"checking in">>]
             ELSE IF c.ret = SAFE
             THEN [NoAssessment EXCEPT !.outcome = c.ret,
                       !.status = <<"checking in", "confirmed safe">>]
             ELSE IF EmergencyAlerterNew(env) # None
             THEN [NoAssessment EXCEPT !.outcome = c.ret, !.alerter = TRUE,
                       !.alert_results =
                           <<FailedAlert(EmergencyAlerterNew(env))>>,
                       !.status = <<"checking in", "contacting",
                                    "alert failed">>]
             ELSE IF s.raised
             THEN [NoAssessment EXCEPT !.outcome = c.ret, !.alerter = TRUE,
                       !.alert_results = <<FailedAlert("Exception")>>,
                       !.status = <<"checking in", "contacting",
                                    "alert failed">>]
             ELSE [NoAssessment EXCEPT !.outcome = c.ret,
                       !.alert_sent = TRUE, !.alert_results = s.results,
                       !.alerter = TRUE,
                       !.status = <<"checking in", "contacting",
                                    "alert sequence complete">>]

\* resp before any call, with the arguments of the call to come.
ResponseNew(contacts, env, assistant, audio1, audio2, outcomes) ==
    [op |-> "idle", contacts |-> contacts, env |-> env,
     assistant |-> assistant, audio1 |-> audio1, audio2 |-> audio2,
     outcomes |-> outcomes, out |-> NoAssessment]

ResponseIdle ==
    resp = ResponseNew(<<<<>>>>, "complete", "given",
                       [fails |-> "none",
                        transcript |-> [text |-> "", safe |-> FALSE,
                                        help |-> FALSE]],
                       [fails |-> "none",
                        transcript |-> [text |-> "", safe |-> FALSE,
                                        help |-> FALSE]],
                       <<>>)

ResponseInit ==
    \E contacts \in ContactLists, env \in Environments,
       assistant \in Assistants, audio1 \in Audios, audio2 \in Audios :
      \E outcomes \in [1..(IF contacts = <<>> THEN 0 ELSE Len(contacts[1]))
                         -> CallOutcomes] :
        resp = ResponseNew(contacts, env, assistant, audio1, audio2,
                           outcomes)

ResponseRunAssessment ==
    /\ resp.op = "idle"
    /\ resp' = [resp EXCEPT !.op = "run_assessment",
                  !.out = RunAssessment(resp.contacts, resp.env,
                                        resp.assistant, resp.audio1,
                                        resp.audio2, resp.outcomes)]

ResponseRunCheckin ==
    /\ resp.op = "idle"
    /\ resp' = [resp EXCEPT !.op = "run_checkin",
                  !.out = RunCheckin(resp.audio1, resp.audio2)]

ResponseSendAlert ==
    /\ resp.op = "idle"
    /\ resp.env = "complete"
    /\ resp' = [resp EXCEPT !.op = "send_alert",
                  !.out = SendAlert(resp.contacts, resp.outcomes)]

(***************************************************************************)
(* Specifications, one per object.                                         *)
(***************************************************************************)
ClassifierNext ==
    \/ ClassifierPredict /\ UNCHANGED <<recorderVars, detectorVars, engineerVars, pipeObs, appVars, responseVars>>
    \/ ClassifierResetCall /\ UNCHANGED <<recorderVars, detectorVars, engineerVars, pipeObs, appVars, responseVars>>

InitClassifier ==
    ClassifierInit /\ RecorderIdle /\ DetectorInit /\ EngineerIdle
      /\ PipelineIdle /\ AppIdle /\ ResponseIdle

SpecClassifier == InitClassifier /\ [][ClassifierNext]_vars

RecorderNext ==
    \/ RecorderAddFrame /\ UNCHANGED <<classifierVars, detectorVars, engineerVars, pipeObs, appVars, responseVars>>
    \/ RecorderOnFallDetected /\ UNCHANGED <<classifierVars, detectorVars, engineerVars, pipeObs, appVars, responseVars>>
    \/ RecorderResetCall /\ UNCHANGED <<classifierVars, detectorVars, engineerVars, pipeObs, appVars, responseVars>>

InitRecorder ==
    RecorderInit /\ ClassifierIdle /\ DetectorInit /\ EngineerIdle
      /\ PipelineIdle /\ AppIdle /\ ResponseIdle

SpecRecorder == InitRecorder /\ [][RecorderNext]_vars

\* The recorder with an encoder that may fail.
RecorderEncoderNext ==
    \/ RecorderAddFrameEncoder /\ UNCHANGED <<classifierVars, detectorVars, engineerVars, pipeObs, appVars, responseVars>>
    \/ RecorderOnFallDetected /\ UNCHANGED <<classifierVars, detectorVars, engineerVars, pipeObs, appVars, responseVars>>
    \/ RecorderResetCall /\ UNCHANGED <<classifierVars, detectorVars, engineerVars, pipeObs, appVars, responseVars>>

SpecRecorderEncoder == InitRecorder /\ [][RecorderEncoderNext]_vars

DetectorNext ==
    \/ DetectorUpdate /\ UNCHANGED <<classifierVars, recorderVars, engineerVars, pipeObs, appVars, responseVars>>
    \/ DetectorStandStill /\ UNCHANGED <<classifierVars, recorderVars, engineerVars, pipeObs, appVars, responseVars>>
    \/ DetectorResetCall /\ UNCHANGED <<classifierVars, recorderVars, engineerVars, pipeObs, appVars, responseVars>>

InitDetector ==
    DetectorInit /\ ClassifierIdle /\ RecorderIdle /\ EngineerIdle
      /\ PipelineIdle /\ AppIdle /\ ResponseIdle

SpecDetector == InitDetector /\ [][DetectorNext]_vars

ScenarioNext ==
    DetectorScenarioFrame /\ UNCHANGED <<classifierVars, recorderVars, engineerVars, pipeObs, appVars, responseVars>>

SpecScenario == InitDetector /\ [][ScenarioNext]_vars

RecoveryWindowNext ==
    DetectorRecoveryRunFrame /\ UNCHANGED <<classifierVars, recorderVars, engineerVars, pipeObs, appVars, responseVars>>

SpecRecoveryWindow == InitDetector /\ [][RecoveryWindowNext]_vars

MarkerNext ==
    \/ DetectorStumble /\ UNCHANGED <<classifierVars, recorderVars, engineerVars, pipeObs, appVars, responseVars>>
    \/ DetectorHold /\ UNCHANGED <<classifierVars, recorderVars, engineerVars, pipeObs, appVars, responseVars>>
    \/ DetectorMarkerFrame /\ UNCHANGED <<classifierVars, recorderVars, engineerVars, pipeObs, appVars, responseVars>>
    \/ DetectorResetCall /\ UNCHANGED <<classifierVars, recorderVars, engineerVars, pipeObs, appVars, responseVars>>

SpecMarker == InitDetector /\ [][MarkerNext]_vars

BaselineEdgeNext ==
    \/ DetectorCalmRun /\ UNCHANGED <<classifierVars, recorderVars, engineerVars, pipeObs, appVars, responseVars>>
    \/ DetectorEdgeFrame /\ UNCHANGED <<classifierVars, recorderVars, engineerVars, pipeObs, appVars, responseVars>>

SpecBaselineEdge == InitDetector /\ [][BaselineEdgeNext]_vars

EngineerNext ==
    \/ EngineerCompute
         /\ UNCHANGED <<classifierVars, recorderVars, detectorVars, pipeObs, appVars, responseVars>>
    \/ EngineerResetCall
         /\ UNCHANGED <<classifierVars, recorderVars, detectorVars, pipeObs, appVars, responseVars>>

InitEngineer ==
    EngineerInit /\ ClassifierIdle /\ RecorderIdle /\ DetectorInit
      /\ PipelineIdle /\ AppIdle /\ ResponseIdle

SpecEngineer == InitEngineer /\ [][EngineerNext]_vars

PipelineNext ==
    \/ PipelineProcessFrame /\ UNCHANGED <<recorderVars, historyVars, appVars, responseVars>>
    \/ PipelineStandStill /\ UNCHANGED <<recorderVars, historyVars, appVars, responseVars>>
    \/ PipelineResetCall /\ UNCHANGED <<recorderVars, historyVars, appVars, responseVars>>

InitPipeline ==
    /\ PipelineInit /\ RecorderIdle
    /\ clfIn = <<>> /\ clfOut = <<>>
    /\ nfdObs = DetectorObsNew
    /\ engObs = EngineerObsNew
    /\ AppIdle /\ ResponseIdle

SpecPipeline == InitPipeline /\ [][PipelineNext]_vars

appOthers ==
    <<classifierVars, detectorVars, engineerVars, pipeObs, recObs,
      responseVars>>

AppNext ==
    \/ AppStartMonitoring /\ UNCHANGED appOthers
    \/ AppStopMonitoring /\ UNCHANGED appOthers
    \/ AppPoll /\ UNCHANGED appOthers
    \/ AppStartAssessment /\ UNCHANGED appOthers
    \/ AppAssessmentReturns /\ UNCHANGED appOthers
    \/ AppDismissOverlay /\ UNCHANGED appOthers
    \/ AppTick /\ UNCHANGED appOthers
    \/ AppWorker /\ UNCHANGED appOthers

InitApp ==
    AppInit /\ RecorderIdle /\ ClassifierIdle /\ DetectorInit
      /\ EngineerIdle /\ PipelineIdle /\ ResponseIdle

SpecApp == InitApp /\ [][AppNext]_vars

RestartNext ==
    \/ AppRestartMonitoring /\ UNCHANGED appOthers
    \/ AppStopMonitoring /\ UNCHANGED appOthers
    \/ AppPoll /\ UNCHANGED appOthers
    \/ AppStartAssessment /\ UNCHANGED appOthers
    \/ AppAssessmentReturns /\ UNCHANGED appOthers
    \/ AppDismissOverlay /\ UNCHANGED appOthers
    \/ AppWorker /\ UNCHANGED appOthers

SpecRestart == InitApp /\ [][RestartNext]_vars

ResponseNext ==
    \/ ResponseRunAssessment
         /\ UNCHANGED <<classifierVars, recorderVars, detectorVars, engineerVars, pipeObs, appVars>>
    \/ ResponseRunCheckin
         /\ UNCHANGED <<classifierVars, recorderVars, detectorVars, engineerVars, pipeObs, appVars>>
    \/ ResponseSendAlert
         /\ UNCHANGED <<classifierVars, recorderVars, detectorVars, engineerVars, pipeObs, appVars>>

InitResponse ==
    ResponseInit /\ ClassifierIdle /\ RecorderIdle /\ DetectorInit
      /\ EngineerIdle /\ PipelineIdle /\ AppIdle

SpecResponse == InitResponse /\ [][ResponseNext]_vars

(***************************************************************************)
(* Properties of FallClassifier.                                           *)
(***************************************************************************)
\* The stream fed so far holds no None.
NonNoneStream == \A i \in 1..Len(clfIn) : ~clfIn[i].none

\* Length of the maximal run of scores >= threshold that ends at call i,
\* read from the inputs alone.
RunAt(i) ==
    Cardinality({k \in 1..i :
        \A j \in k..i : ~clfIn[j].none /\ clfIn[j].proba >= clf.threshold})

\* C1: on a stream of non-none vectors, predict returns 'fall' exactly on the
\* frame where a run of scores >= threshold reaches confirmation_windows,
\* 'confirming' on every other frame of a run, 'no_fall' on a sub-threshold
\* score, which also leaves the counter at 0 and the latch clear.
C1_FallOncePerRun ==
    NonNoneStream =>
      /\ \A i \in 1..Len(clfOut) :
           /\ (clfOut[i] = "fall") <=> (RunAt(i) = clf.confirmation_windows)
           /\ (clfOut[i] = "confirming")
                <=> (RunAt(i) > 0 /\ RunAt(i) # clf.confirmation_windows)
           /\ (clfOut[i] = "no_fall") <=> (RunAt(i) = 0)
      /\ (clfIn # <<>> /\ RunAt(Len(clfIn)) = 0)
           => (clf.consecutive_positives = 0 /\ ~clf.fall_declared)

\* Two runs in one non-none stream, each declared once, the first one longer
\* than confirmation_windows.
C1_Witness ==
    /\ NonNoneStream
    /\ \E i, j \in 1..Len(clfOut) :
         /\ i + 2 < j
         /\ clfOut[i] = "fall" /\ clfOut[i + 1] = "confirming"
         /\ clfOut[j] = "fall"
         /\ \E k \in (i + 2)..(j - 1) : clfOut[k] = "no_fall"

(***************************************************************************)
(* Properties of EventLogger.                                              *)
(***************************************************************************)
\* The last n elements of s.
LastN(s, n) == SubSeq(s, Len(s) - n + 1, Len(s))

\* C7: on_fall_detected() called while a session is active changes nothing
\* of the recorder (counter, post-trigger list, rolling buffer).
C7_DuplicateTriggerNoOp ==
    [][(recObs'.op = "on_fall_detected" /\ rec.recording) => rec' = rec]_vars

\* A duplicate trigger arrived in the middle of a session that had already
\* captured post-trigger frames.
C7_Witness ==
    /\ recObs.op = "on_fall_detected" /\ recObs.dup
    /\ rec.recording
    /\ rec.post_fall_frames # <<>>
    /\ rec.frames_remaining < rec.frames_after

\* C8 as stated: in a session, add_frame returns a path exactly on call number
\* frames_after after the trigger, and the recorder has then left recording.
C8_ClipAfterFramesAfter ==
    (recObs.op = "add_frame" /\ recObs.inSession) =>
      /\ (recObs.ret # None) <=> (recObs.session = rec.frames_after)
      /\ (recObs.ret # None) <=> ~rec.recording

\* C8 amended: the path is returned exactly on call number
\* max(frames_after, 1) after the trigger; earlier calls return none and
\* stay in recording mode.
C8_ClipAfterMaxFramesAfterOne ==
    (recObs.op = "add_frame" /\ recObs.inSession) =>
      /\ (recObs.ret # None) <=> (recObs.session = Max(rec.frames_after, 1))
      /\ (recObs.ret # None) <=> ~rec.recording

\* With the default frames_after = 0 the clip comes back from the first
\* add_frame after the trigger.
C8_Witness ==
    /\ recObs.op = "add_frame" /\ recObs.inSession
    /\ rec.frames_after = 0
    /\ recObs.session = 1
    /\ recObs.ret # None
    /\ ~rec.recording

\* C9: while not recording, the rolling buffer is the last
\* min(n, frames_before) frames passed to add_frame since construction or
\* reset, in arrival order.
C9_BufferHoldsLastFrames ==
    ~rec.recording =>
      rec.frame_buffer
        = LastN(recObs.seen, Min(Len(recObs.seen), rec.frames_before))

\* C10: the rolling buffer holds at most frames_before frames, at most one
\* session is active (and one is exactly when recording is set), the
\* post-trigger list is empty outside a session and never holds more than
\* max(frames_after, 1) frames, also inside add_frame.
C10_RecorderBounds ==
    /\ Len(rec.frame_buffer) <= rec.frames_before
    /\ recObs.active \in {0, 1}
    /\ (recObs.active = 1) <=> rec.recording
    /\ ~rec.recording => rec.post_fall_frames = <<>>
    /\ Len(rec.post_fall_frames) <= Max(rec.frames_after, 1)
    /\ recObs.postLen <= Max(rec.frames_after, 1)

\* A full rolling buffer that has evicted a frame, in a session that has
\* captured a post-trigger frame.
C10_Witness ==
    /\ Len(rec.frame_buffer) = rec.frames_before
    /\ Len(recObs.seen) > rec.frames_before + 1
    /\ rec.recording
    /\ rec.post_fall_frames # <<>>

\* s has no element twice.
NoDuplicates(s) == \A i, j \in 1..Len(s) : s[i] = s[j] => i = j

\* p is a prefix of s.
IsPrefix(p, s) == Len(p) <= Len(s) /\ SubSeq(s, 1, Len(p)) = p

\* C11: the frames handed to the encoder when a session completes are the
\* rolling buffer as the accepted trigger found it followed by the frames
\* added during the session, in order; no frame is there twice; and the clip
\* starts with the last frames_before frames added before the trigger.
C11_ClipIsBufferThenSession ==
    (recObs.op = "add_frame" /\ recObs.clip # <<>>) =>
      /\ recObs.clip = recObs.atTrigger \o recObs.sessFrames
      /\ NoDuplicates(recObs.clip)
      /\ IsPrefix(LastN(recObs.preSeen,
                        Min(Len(recObs.preSeen), rec.frames_before)),
                  recObs.clip)

\* C12: when the encoder fails while a clip is saved, add_frame does not
\* raise, returns none, and the recorder has left recording mode with an
\* empty post-trigger list, as after a successful save.
C12_EncoderFailureContained ==
    (recObs.op = "add_frame"
       /\ recObs.encoder \in {"silent_failure", "raises"}) =>
      /\ ~recObs.raised
      /\ recObs.ret = None
      /\ ~rec.recording
      /\ rec.post_fall_frames = <<>>

(***************************************************************************)
(* Properties of FeatureEngineer.                                          *)
(***************************************************************************)
\* The spine angle of every frame fed was a whole number of degrees.
EngineerArithmeticExact == engObs.angleExact

\* C13: on a stream of absent frames only, every compute returns none, the
\* window holds min(calls, window_size) tuples, and every tuple is all zeros.
C13_AllAbsentStream ==
    (engObs.op = "compute" /\ engObs.onlyAbsent) =>
      /\ engObs.ret.none
      /\ Len(eng.window) = Min(engObs.calls, eng.window_size)
      /\ \A i \in 1..Len(eng.window) :
           \A j \in 1..FEATURE_COUNT : eng.window[i][j] = 0

\* More absent frames than the window holds, after a reset that followed
\* present frames.
C13_Witness ==
    /\ engObs.op = "compute" /\ engObs.onlyAbsent
    /\ engObs.calls > eng.window_size
    /\ engObs.clock > engObs.calls
    /\ eng.window_size >= 2

\* C14: after construction or reset, on present frames only, compute returns
\* none on calls 1..window_size-1 and a vector on call window_size and on
\* every later call.
C14_FirstVectorOnWindowSizeCall ==
    (engObs.op = "compute" /\ engObs.onlyPresent) =>
      (engObs.ret.none <=> engObs.calls < eng.window_size)

\* A vector returned on a call later than window_size, after a reset.
C14_Witness ==
    /\ engObs.op = "compute" /\ engObs.onlyPresent
    /\ ~engObs.ret.none
    /\ engObs.calls > eng.window_size
    /\ engObs.clock > engObs.calls
    /\ eng.window_size >= 2

\* C15: a returned vector has window_size * 5 elements, element
\* j * window_size + i (from 0) is feature j of the i-th tuple of the window,
\* and the last tuple of the window is the one of the current frame.
C15_FeatureMajor ==
    (engObs.op = "compute" /\ ~engObs.ret.none) =>
      /\ Len(engObs.ret.vec) = eng.window_size * FEATURE_COUNT
      /\ Len(eng.window) = eng.window_size
      /\ \A j \in 0..(FEATURE_COUNT - 1) : \A i \in 0..(eng.window_size - 1) :
           engObs.ret.vec[j * eng.window_size + i + 1] = eng.window[i + 1][j + 1]
      /\ eng.window[eng.window_size] = engObs.tuple

\* A vector of a window of three different tuples, one of them the
\* placeholder of a detection gap.
C15_Witness ==
    /\ engObs.op = "compute" /\ ~engObs.ret.none
    /\ eng.window_size = 3
    /\ eng.window[1] = ZeroTuple
    /\ eng.window[2] # ZeroTuple
    /\ eng.window[3] # eng.window[2]
    /\ eng.window[3][2] # 0

(***************************************************************************)
(* Properties of DetectionPipeline.                                        *)
(***************************************************************************)
\* C16: the alert of every FrameResult is set exactly when rf_status is
\* 'fall' or 'confirming' or near_fall_status is 'near_fall'; 'sitting'
\* alone does not set it.
C16_AlertIffFallOrNearFall ==
    pipeObs.op = "process_frame" =>
      LET r == pipeObs.result
      IN  /\ r.alert <=> (r.rf_status \in {"fall", "confirming"}
                            \/ r.near_fall_status = "near_fall")
          /\ (r.near_fall_status = "sitting" /\ r.rf_status = "no_fall")
                => ~r.alert

\* A frame the near-fall detector calls 'sitting' while the classifier
\* says 'no_fall'.
C16_Witness ==
    /\ pipeObs.op = "process_frame"
    /\ pipeObs.result.near_fall_status = "sitting"
    /\ pipeObs.result.rf_status = "no_fall"
    /\ ~pipeObs.result.alert

\* C18: a frame without a pose still goes through both paths: the feature
\* window ends with a zero tuple and the previous hip_y is cleared, the
\* classifier's counter is 0, the detector's previous norm is cleared, and
\* the FrameResult is (no_fall, no_event, no alert, no fired rules).
C18_AbsentFrameRunsBothPaths ==
    (pipeObs.op = "process_frame" /\ pipeObs.lm.absent) =>
      /\ eng.window # <<>>
      /\ eng.window[Len(eng.window)] = ZeroTuple
      /\ eng.prev_hip_y = <<>>
      /\ clf.consecutive_positives = 0
      /\ nfd.prev_norm = <<>>
      /\ pipeObs.result = NoPoseResult

C17_EventTriggersRecorder ==
    (appObs.op = "handle_result"
       /\ (appObs.handled.rf_status = "fall"
             \/ appObs.handled.near_fall_status = "near_fall")) =>
      appObs.triggered

\* C20: the frame queue never holds more than 2 results, and the put of the
\* capture loop never waits: it appends when there is room, discards the
\* result when the queue is full, and the worker goes on to its next frame.
C20_WorkerNeverBlocks ==
    [][/\ Len(app'.frame_queue) <= 2
       /\ appObs'.op = "worker_put" =>
            /\ \A w \in 1..Len(workers) :
                 workers'[w].pc # workers[w].pc => workers'[w].pc = "top"
            /\ \E w \in 1..Len(workers) :
                 /\ workers[w].pc = "put" /\ workers'[w].pc = "top"
                 /\ app'.frame_queue =
                      IF Len(app.frame_queue) < 2
                      THEN Append(app.frame_queue, workers[w].result)
                      ELSE app.frame_queue]_vars

\* The capture loop has discarded a result at a full queue and gone on.
C20_Witness ==
    /\ appObs.op = "worker_put"
    /\ appObs.dropped
    /\ Len(app.frame_queue) = 2
    /\ \E w \in 1..Len(workers) : workers[w].pc = "top"

\* C21: no decision is lost or stale under backpressure.  A result enters
\* the frame queue by the worker's put only, so a 'fall' result reaches
\* _handle_result only if its put does not discard it; and a result the
\* consumer handles is not older than a result that was discarded.
C21_NoDecisionLostOrStale ==
    /\ (appObs.op = "worker_put" /\ appObs.put.rf_status = "fall") =>
          ~appObs.dropped
    /\ appObs.op = "handle_result" =>
          appObs.handledFrame > appObs.lastDropped

\* C22: while the assessment flag is set no process_frame call and no
\* add_frame call of the capture worker starts.
C22_WorkerPausedDuringAssessment ==
    [][\A w \in 1..Len(workers) :
         /\ (workers[w].pc = "process" /\ workers'[w].pc = "add_frame") =>
               ~app.in_assessment
         /\ (workers[w].pc = "add_frame" /\ workers'[w].pc = "put"
                /\ app.event_logger) =>
               ~app.in_assessment]_vars

(***************************************************************************)
(* Properties of the post-fall response.                                   *)
(***************************************************************************)
\* The check-in of the call in resp went through (the assistant was there
\* and run_checkin returned).
CheckinReturned == resp.op = "run_assessment" /\ resp.out.outcome # None

\* The alert step of the call in resp failed: the alerter could not be
\* constructed or send_alert raised.
AlertStepRaises == resp.env # "complete" \/ resp.contacts = <<>>

C24_AtMostTwoPrompts ==
    resp.op = "run_checkin" =>
      LET first == ListenAndClassify(resp.audio1).ret
          second == ListenAndClassify(resp.audio2).ret
      IN  /\ ~resp.out.raised
          /\ resp.out.prompts \in {1, 2}
          /\ resp.out.prompts = 2 <=> first = NO_RESPONSE
          /\ Len(resp.out.classes) = resp.out.prompts
          /\ resp.out.ret = IF first \in {SAFE, HELP_NEEDED} THEN first
                            ELSE second
          /\ resp.out.ret \in {SAFE, HELP_NEEDED, NO_RESPONSE}

\* Silence after the first prompt, "help" after the second.
C24_Witness ==
    /\ resp.op = "run_checkin"
    /\ resp.out.prompts = 2
    /\ resp.out.classes = <<NO_RESPONSE, HELP_NEEDED>>
    /\ resp.out.ret = HELP_NEEDED

\* C25: a failure while recording or transcribing is classified
\* NO_RESPONSE and not raised; if both listens fail run_checkin returns
\* NO_RESPONSE and run_assessment goes on to the emergency alert.  A
\* failure never resolves to SAFE.
C25_AudioFailureIsNoResponse ==
    /\ (resp.op = "run_checkin" /\ resp.audio1.fails # "none") =>
         /\ ~resp.out.raised
         /\ resp.out.classes[1] = NO_RESPONSE
         /\ resp.audio2.fails # "none" =>
              resp.out.classes = <<NO_RESPONSE, NO_RESPONSE>>
                /\ resp.out.ret = NO_RESPONSE
         /\ resp.out.ret = SAFE =>
              resp.audio2.fails = "none" /\ resp.audio2.transcript.safe
    /\ (resp.op = "run_assessment" /\ resp.assistant # "constructor_raises"
          /\ resp.audio1.fails # "none" /\ resp.audio2.fails # "none") =>
         /\ ~resp.out.raised
         /\ resp.out.outcome = NO_RESPONSE
         /\ resp.out.alerter
         /\ resp.out.alert_sent <=> ~AlertStepRaises

\* Recording fails on the first listen, transcription on the second, and
\* the alert goes out.
C25_Witness ==
    /\ resp.op = "run_assessment"
    /\ resp.audio1.fails = "record" /\ resp.audio2.fails = "transcribe"
    /\ resp.out.outcome = NO_RESPONSE
    /\ resp.out.alert_sent
    /\ Len(resp.out.alert_results) = 3

\* C26: send_alert calls every configured contact whatever happens to the
\* other calls, and returns N + 1 results for N contacts: one per contact
\* in configured order, then the mock dispatch.
C26_EveryContactCalled ==
    (resp.op = "send_alert" /\ resp.contacts # <<>>) =>
      /\ ~resp.out.raised
      /\ Len(resp.out.results) = Len(resp.contacts[1]) + 1
      /\ \A i \in 1..Len(resp.contacts[1]) :
           /\ resp.out.results[i].action =
                <<"Call to", resp.contacts[1][i].name,
                  resp.contacts[1][i].phone>>
           /\ resp.out.results[i].success <=> resp.outcomes[i] = "ok"
      /\ resp.out.results[Len(resp.contacts[1]) + 1] = MockDispatch

\* The first call raises, the second is placed all the same.
C26_Witness ==
    /\ resp.op = "send_alert"
    /\ resp.contacts # <<>> /\ Len(resp.contacts[1]) = 2
    /\ resp.outcomes = <<"error", "ok">>
    /\ Len(resp.out.results) = 3
    /\ ~resp.out.results[1].success /\ resp.out.results[2].success

(***************************************************************************)
(* Properties of NearFallDetector.                                         *)
(***************************************************************************)
\* hip_norm was an exact quotient on every accepted frame (the arithmetic
\* of the model loses nothing).
DetectorArithmeticExact == nfdObs.exact

\* C2: over the stumble scenario update returns 'near_fall' exactly once,
\* 'entering_recovery' and 'recovery_detected' are fired on the way, and the
\* detector is in IDLE after the last frame.
C2_StumbleScenario ==
    /\ nfdObs.nearFalls <= 1
    /\ nfdObs.calls = ScenarioLength =>
         /\ nfdObs.nearFalls = 1
         /\ {"entering_recovery", "recovery_detected"} \subseteq nfdObs.rulesSeen
         /\ nfd.state = "IDLE"

\* The scenario has run to its last frame, which was accepted with the
\* knees below the shoulders.
C2_Witness ==
    /\ nfdObs.calls = ScenarioLength
    /\ nfdObs.kind = "accepted"
    /\ nfdObs.lm = Pose(1, 1000, FALSE)
    /\ nfdObs.nearFalls = 1

\* C3: an event triggered, with a baseline established, by a frame that
\* itself jumped by VELOCITY_TRIGGER or more, and whose frames all have
\* activity_ratio < 0.55, never enters RECOVERY, returns 'sitting' at most
\* once, and has returned it once when the detector is back in IDLE.
C3_SpikeWithLowRatioIsSitting ==
    (/\ nfdObs.ev.inEvent /\ nfdObs.ev.baseKnown
     /\ nfdObs.ev.direct /\ nfdObs.ev.ratioLow)
    => /\ ~nfdObs.ev.recovery
       /\ nfd.state # "RECOVERY"
       /\ nfdObs.ev.sittings <= 1
       /\ nfd.state = "IDLE" => nfdObs.ev.sittings = 1

\* C4: an event triggered with a baseline established, all of whose frames
\* are accepted with hip_norm <= (baseline at the trigger) + 0.04, never
\* returns 'near_fall', and once it has entered RECOVERY it is back in IDLE
\* only after RECOVERY_FRAMES frames in RECOVERY.
C4_ShallowDropNeverNearFall ==
    (nfdObs.ev.inEvent /\ nfdObs.ev.baseKnown /\ nfdObs.ev.peakLow)
    => /\ nfdObs.ev.nearFalls = 0
       /\ nfdObs.ret # "near_fall"
       /\ (nfd.state = "IDLE" /\ nfdObs.ev.recovery)
            => nfdObs.ev.frames = RECOVERY_FRAMES

\* C5: an update with a frame the sanity check rejects returns 'no_event',
\* clears prev_norm, and leaves the FSM state, the recovery countdown, the
\* deepest-drop marker, the velocity ring buffer, the baseline buffer and
\* the standing baseline as they were.
C5_RejectedFrameKeepsProgress ==
    [][nfdObs'.kind = "rejected" =>
         /\ nfdObs'.ret = "no_event"
         /\ nfd'.prev_norm = <<>>
         /\ nfd'.state = nfd.state
         /\ nfd'.recovery_frames_left = nfd.recovery_frames_left
         /\ nfd'.lowest_norm_in_recovery = nfd.lowest_norm_in_recovery
         /\ nfd'.velocity_buf = nfd.velocity_buf
         /\ nfd'.baseline_buf = nfd.baseline_buf
         /\ nfd'.standing_norm = nfd.standing_norm]_vars

\* A frame with activity_ratio 10 was rejected in the middle of a recovery
\* window, with a baseline established.
C5_Witness ==
    /\ nfdObs.kind = "rejected"
    /\ nfdObs.lm = BrokenPose
    /\ nfdObs.pre = "RECOVERY"
    /\ nfd.state = "RECOVERY"
    /\ nfd.recovery_frames_left < RECOVERY_FRAMES
    /\ nfd.lowest_norm_in_recovery # <<>>
    /\ nfd.standing_norm # <<>>

\* C6: update(None) returns 'no_event', clears prev_norm and the fired-rule
\* list, and leaves the FSM state, the recovery countdown, the deepest-drop
\* marker, the velocity ring buffer and the baseline as they were.
C6_AbsentFrameKeepsProgress ==
    [][nfdObs'.kind = "absent" =>
         /\ nfdObs'.ret = "no_event"
         /\ nfd'.prev_norm = <<>>
         /\ nfd'.triggered_rules = <<>>
         /\ nfd'.state = nfd.state
         /\ nfd'.recovery_frames_left = nfd.recovery_frames_left
         /\ nfd'.lowest_norm_in_recovery = nfd.lowest_norm_in_recovery
         /\ nfd'.velocity_buf = nfd.velocity_buf
         /\ nfd'.baseline_buf = nfd.baseline_buf
         /\ nfd'.standing_norm = nfd.standing_norm]_vars

\* None arrived right after a trigger, with a baseline established and the
\* velocity ring buffer full.
C6_Witness ==
    /\ nfdObs.kind = "absent"
    /\ nfdObs.pre = "TRIGGERED"
    /\ nfd.state = "TRIGGERED"
    /\ nfd.prev_norm = <<>>
    /\ Len(nfd.velocity_buf) = 3
    /\ nfd.standing_norm # <<>>

\* The transition is one update call with an accepted frame.
AcceptedCall ==
    nfdObs'.calls = nfdObs.calls + 1 /\ nfdObs'.kind = "accepted"

\* hip_norm of the frame of the last update.
LastNorm(o) == Derived(o.lm).hip_norm

\* peak_velocity of an accepted frame with the given hip_norm arriving at
\* detector d: the maximum of the last up to 3 signed velocities.
PeakVelocity(d, hip_norm) ==
    LET velocity == IF d.prev_norm = <<>> THEN 0
                    ELSE hip_norm - d.prev_norm[1]
        all == Append(d.velocity_buf, velocity)
        last == SubSeq(all, Max(1, Len(all) - 2), Len(all))
    IN  SeqMax(last)

\* hip_norm > baseline + margin (in 1/1000), the baseline being the mean
\* of the 45 samples whose sum is kept.
Exceeds(hip_norm, standing, margin) ==
    BASELINE_FRAMES * (hip_norm - margin) > standing[1]

\* C27: an accepted frame in IDLE moves the detector to TRIGGERED, firing
\* 'velocity_spike_below_baseline' and returning 'no_event', if and only if
\* peak_velocity >= 0.025 and either no standing baseline exists or
\* hip_norm > baseline + 0.01; otherwise it stays IDLE with no fired rule.
C27_IdleTriggerRule ==
    [][(AcceptedCall /\ nfd.state = "IDLE") =>
         LET hip_norm == LastNorm(nfdObs')
             spike == /\ PeakVelocity(nfd, hip_norm) >= 25
                      /\ \/ nfd'.standing_norm = <<>>
                         \/ Exceeds(hip_norm, nfd'.standing_norm, 10)
         IN  /\ nfdObs'.ret = "no_event"
             /\ IF spike
                THEN /\ nfd'.state = "TRIGGERED"
                     /\ nfd'.triggered_rules =
                            <<"velocity_spike_below_baseline">>
                ELSE /\ nfd'.state = "IDLE"
                     /\ nfd'.triggered_rules = <<>>]_vars

\* With a baseline established, a velocity spike at or above the baseline
\* left the detector in IDLE.
C27_Witness ==
    /\ nfdObs.kind = "accepted" /\ nfdObs.pre = "IDLE"
    /\ nfd.state = "IDLE"
    /\ nfd.standing_norm # <<>>
    /\ SeqMax(nfd.velocity_buf) >= VELOCITY_TRIGGER
    /\ nfdObs.rulesSeen # {}

\* C28: TRIGGERED lasts one accepted frame.  That frame either returns
\* 'sitting' and goes to IDLE firing 'activity_ratio_sit', when
\* activity_ratio < 0.55 and |peak_velocity| < 0.025, or goes to RECOVERY
\* with countdown 30 and the marker at its hip_norm, firing
\* 'entering_recovery' and returning 'no_event'.  'sitting' is returned in
\* no other situation.
C28_TriggeredLastsOneFrame ==
    [][/\ (AcceptedCall /\ nfd.state = "TRIGGERED") =>
            LET q == Derived(nfdObs'.lm)
                sit == /\ 100 * q.leg_height < 55 * q.torso_height
                       /\ Abs(PeakVelocity(nfd, q.hip_norm)) < 25
            IN  IF sit
                THEN /\ nfdObs'.ret = "sitting"
                     /\ nfd'.state = "IDLE"
                     /\ nfd'.triggered_rules = <<"activity_ratio_sit">>
                ELSE /\ nfdObs'.ret = "no_event"
                     /\ nfd'.state = "RECOVERY"
                     /\ nfd'.recovery_frames_left = 30
                     /\ nfd'.lowest_norm_in_recovery = <<q.hip_norm>>
                     /\ nfd'.triggered_rules = <<"entering_recovery">>
       /\ (nfdObs'.calls = nfdObs.calls + 1 /\ nfdObs'.ret = "sitting") =>
            nfd.state = "TRIGGERED" /\ nfdObs'.kind = "accepted"]_vars

\* A frame in TRIGGERED was taken for sitting down.
C28_Witness ==
    /\ nfdObs.kind = "accepted" /\ nfdObs.pre = "TRIGGERED"
    /\ nfdObs.ret = "sitting"
    /\ nfd.state = "IDLE"

\* C29: update returns 'near_fall' only on an accepted frame in RECOVERY,
\* and there exactly when a baseline is known (as updated on that frame),
\* the largest hip_norm seen since entering RECOVERY, the current frame
\* included, exceeds baseline + 0.04, and the current hip_norm is at most
\* baseline + 0.05; the detector is then in IDLE, the marker cleared,
\* 'recovery_detected' fired.
C29_NearFallRule ==
    [][/\ (AcceptedCall /\ nfd.state = "RECOVERY") =>
            LET hip_norm == LastNorm(nfdObs')
                largest == Max(hip_norm, nfdObs.ev.deepest[1])
                recovered ==
                    /\ nfd'.standing_norm # <<>>
                    /\ Exceeds(largest, nfd'.standing_norm, 40)
                    /\ ~Exceeds(hip_norm, nfd'.standing_norm, 50)
            IN  /\ nfdObs'.ret = "near_fall" <=> recovered
                /\ recovered =>
                     /\ nfd'.state = "IDLE"
                     /\ nfd'.lowest_norm_in_recovery = <<>>
                     /\ nfd'.triggered_rules = <<"recovery_detected">>
       /\ (nfdObs'.calls = nfdObs.calls + 1 /\ nfdObs'.ret = "near_fall") =>
            nfd.state = "RECOVERY" /\ nfdObs'.kind = "accepted"]_vars

\* A near-fall whose deepest frame came before the frame of the return.
C29_Witness ==
    /\ nfdObs.kind = "accepted" /\ nfdObs.pre = "RECOVERY"
    /\ nfdObs.ret = "near_fall"
    /\ nfd.state = "IDLE"
    /\ nfd.standing_norm # <<>>
    /\ ~Exceeds(LastNorm(nfdObs), nfd.standing_norm, 40)

\* C30: the recovery window is a bounded budget of update calls: once in
\* RECOVERY the detector is back in IDLE no later than the 30th following
\* update call, whatever frames those calls bring.
C30_RecoveryWindowBounded ==
    nfd.state = "RECOVERY" => nfdObs.ev.calls < RECOVERY_FRAMES

\* C31: every accepted frame, in every FSM state, is pushed into the
\* 45-sample baseline buffer (evicting the oldest) exactly when
\* |peak_velocity| < 0.012; the standing baseline is the mean of the buffer
\* once it holds 45 samples, is unknown until 45 calm accepted frames have
\* been seen since reset, and once known stays known until reset().
C31_BaselineMaintenance ==
    [][/\ AcceptedCall =>
            LET hip_norm == LastNorm(nfdObs')
                pushed == Append(nfd.baseline_buf, hip_norm)
            IN  nfd'.baseline_buf =
                  IF Abs(PeakVelocity(nfd, hip_norm)) < 12
                  THEN SubSeq(pushed, Max(1, Len(pushed) - 44), Len(pushed))
                  ELSE nfd.baseline_buf
       /\ Len(nfd'.baseline_buf) <= 45
       /\ Len(nfd'.baseline_buf) = 45 =>
            nfd'.standing_norm = <<SeqSum(nfd'.baseline_buf)>>
       /\ nfd'.standing_norm # <<>> <=> nfdObs'.calm >= 45
       /\ (nfd.standing_norm # <<>> /\ nfdObs'.kind # "reset") =>
            nfd'.standing_norm # <<>>]_vars

\* A calm frame in RECOVERY went into the full buffer, evicting the oldest
\* sample and moving the baseline.
C31_Witness ==
    /\ nfdObs.kind = "accepted" /\ nfdObs.pre = "RECOVERY"
    /\ Len(nfd.baseline_buf) = 45
    /\ nfd.baseline_buf[45] = LastNorm(nfdObs)
    /\ nfd.baseline_buf[45] # nfd.baseline_buf[1]
    /\ nfd.standing_norm = <<SeqSum(nfd.baseline_buf)>>
    /\ nfdObs.calm > 45

\* C32: every update call that returns 'near_fall' is preceded, since the
\* last reset, by at least 45 accepted calm frames.
C32_NearFallAfter45CalmFrames ==
    [][(nfdObs'.calls = nfdObs.calls + 1 /\ nfdObs'.ret = "near_fall") =>
         nfdObs.calm >= 45]_vars

\* C32, amended: no 'near_fall' is returned while the standing baseline is
\* unknown: when update returns 'near_fall' the baseline is known and at
\* least 45 accepted calm frames have been seen since the last reset, the
\* frame of that call included.
C32_NearFallOnlyWithBaseline ==
    nfdObs.ret = "near_fall" =>
      /\ nfd.standing_norm # <<>>
      /\ nfdObs.calm >= 45
      /\ nfdObs.kind = "accepted"

\* The detector went through TRIGGERED and RECOVERY without a baseline,
\* and the frame that returned 'near_fall' was itself the 45th calm frame.
C32_Witness ==
    /\ nfdObs.ret = "near_fall"
    /\ nfdObs.calm = 45
    /\ nfdObs.ev.inEvent /\ ~nfdObs.ev.baseKnown /\ nfdObs.ev.recovery

\* C33: a none input re-arms the classifier: the latch is never set while
\* the counter is 0, so the run of confirmation_windows scores >= threshold
\* that follows a none input returns 'fall' on its last frame.
C33_NoneInputRearms ==
    /\ clf.fall_declared => clf.consecutive_positives > 0
    /\ \A i \in 1..Len(clfOut) :
         (/\ i > clf.confirmation_windows
          /\ clfIn[i - clf.confirmation_windows].none
          /\ \A j \in (i - clf.confirmation_windows + 1)..i :
                ~clfIn[j].none /\ clfIn[j].proba >= clf.threshold)
           => clfOut[i] = "fall"

\* C34: for any mix of present and absent frames, compute returns a vector
\* exactly when the current frame is present and at least window_size
\* compute calls were made since the last reset; the window never holds more
\* than window_size tuples, an absent frame returns none, and in a returned
\* vector the window position of every absent frame holds zeros.
C34_VectorIffPresentAndFull ==
    /\ Len(eng.window) <= eng.window_size
    /\ Len(eng.window) = Min(engObs.calls, eng.window_size)
    /\ engObs.op = "compute" =>
         /\ ~engObs.ret.none <=>
               (/\ ~engObs.absents[engObs.calls]
                /\ engObs.calls >= eng.window_size)
         /\ ~engObs.ret.none =>
               \A i \in 1..eng.window_size :
                 engObs.absents[engObs.calls - eng.window_size + i] =>
                   \A j \in 0..(FEATURE_COUNT - 1) :
                     engObs.ret.vec[j * eng.window_size + i] = 0

\* A vector returned after a detection gap in the middle of the window, the
\* frames around the gap present and not all zeros.
C34_Witness ==
    /\ engObs.op = "compute" /\ ~engObs.ret.none
    /\ eng.window_size = 3
    /\ engObs.calls > eng.window_size
    /\ engObs.absents[engObs.calls - 1]
    /\ ~engObs.absents[engObs.calls - 2]
    /\ engObs.ret.vec[1] # 0 /\ engObs.ret.vec[2] = 0 /\ engObs.ret.vec[3] # 0
    /\ \E k \in 1..(engObs.calls - 3) : engObs.absents[k]

(***************************************************************************)
(* Properties of MonitoringScreen, continued.                              *)
(***************************************************************************)
\* C35: while the post-alert overlay is shown the capture worker is not
\* paused (its test of the assessment flag lets it go on to read a frame),
\* and dismissing the overlay changes nothing but the overlay.
C35_MonitoringContinuesUnderOverlay ==
    [][/\ \A w \in 1..Len(workers) :
            (/\ app.overlay_visible /\ app.main = "idle"
             /\ workers[w].pc = "check" /\ workers'[w].pc # "check") =>
               workers'[w].pc = "read"
       /\ (app.overlay_visible /\ ~app'.overlay_visible) =>
             app' = [app EXCEPT !.overlay_visible = FALSE]]_vars

\* An assessment is in progress from the _handle_result that starts it until
\* _start_assessment has returned: scheduled, or running run_assessment.
AssessmentsInProgress ==
    app.assessments + (IF app.main = "assessing" THEN 1 ELSE 0)

\* The step is a _handle_result that starts an assessment.
AssessmentStarted == app'.assessments = app.assessments + 1

\* C36: the consumer starts an assessment exactly for a 'fall' result handled
\* while no assessment is in progress and more than FALL_COOLDOWN seconds
\* after the last started one; at most one assessment is in progress at any
\* time, and on_fall_detected is called once in the step that starts an
\* assessment and in no other step of the screen.
C36_OneAssessmentAfterCooldown ==
    [][/\ AssessmentStarted <=>
             /\ appObs'.op = "handle_result"
             /\ appObs'.handled.rf_status = "fall"
             /\ ~app.in_assessment
             /\ AssessmentsInProgress = 0
             /\ app.now - app.last_fall_time > FALL_COOLDOWN
       /\ AssessmentStarted =>
             /\ app'.in_assessment
             /\ app'.last_fall_time = app.now
       /\ appObs'.triggered <=> AssessmentStarted
       /\ AssessmentsInProgress' <= 1
       /\ AssessmentsInProgress' = 1 => app'.in_assessment]_vars

\* A second assessment was started after the cooldown, after 'fall' results
\* that started nothing: the step is the second start, one tick after the
\* first.
C36_Witness ==
    /\ appObs.op = "handle_result" /\ appObs.handled.rf_status = "fall"
    /\ appObs.triggered
    /\ appObs.ticks = 1
    /\ app.last_fall_time = StartTime + TickSeconds
    /\ app.assessments = 1
    /\ appObs.handledFrame = 3

\* C37: once _stop_monitoring has returned (the screen is not running), the
\* capture worker makes no further step that uses the camera (cap.read), the
\* pipeline (process_frame) or the recorder (add_frame).
C37_NoUseAfterStop ==
    [][\A w \in 1..Len(workers) :
         /\ (workers[w].pc = "read" /\ workers'[w].pc # "read") =>
               app.running
         /\ (workers[w].pc = "process" /\ workers'[w].pc # "process") =>
               app.running
         /\ (workers[w].pc = "add_frame" /\ workers'[w].pc = "put"
                /\ app.event_logger) =>
               app.running]_vars

\* The capture threads that have not left _capture_loop.
LiveWorkers ==
    {w \in 1..Len(workers) : workers[w].pc \notin {"done", "crashed"}}

\* C38: at most one capture worker is live at any time, whatever the
\* sequence of start and stop toggles.
C38_AtMostOneLiveWorker == Cardinality(LiveWorkers) <= 1

(***************************************************************************)
(* Properties of NearFallDetector, continued.                              *)
(***************************************************************************)
\* C39: after every update or reset call the deepest-drop marker is set
\* exactly when the state is RECOVERY; in RECOVERY it is the largest
\* hip_norm of the accepted frames since (and including) the one that
\* entered RECOVERY, it never decreases, and the countdown is between 1 and
\* RECOVERY_FRAMES.
C39_MarkerTracksRecovery ==
    [][/\ nfd'.lowest_norm_in_recovery # <<>> <=> nfd'.state = "RECOVERY"
       /\ nfd'.state = "RECOVERY" =>
            /\ nfd'.lowest_norm_in_recovery = nfdObs'.ev.deepest
            /\ nfd'.recovery_frames_left >= 1
            /\ nfd'.recovery_frames_left <= RECOVERY_FRAMES
       /\ (nfd.state = "RECOVERY" /\ nfd'.state = "RECOVERY") =>
            nfd'.lowest_norm_in_recovery[1] >= nfd.lowest_norm_in_recovery[1]]_vars

\* The last frame of the countdown is about to come: the marker was raised
\* by a deeper frame than the one that entered RECOVERY, and the last frame
\* was a shallower one that left it where it was.
C39_Witness ==
    /\ nfd.state = "RECOVERY"
    /\ nfd.recovery_frames_left = 1
    /\ nfd.lowest_norm_in_recovery = <<1800>>
    /\ nfdObs.kind = "accepted" /\ LastNorm(nfdObs) = 1600

====
